---- MODULE Spec2Model ----
(***************************************************************************)
(* The off-chain settlement client of yellowpay (YellowProvider): the      *)
(* socket, the request/response correlation of sendMessage, and the        *)
(* authentication handshake of connect; and the two fund migrations,       *)
(* depositToYellow and recoverCustodyFunds, with the custody contract and  *)
(* the ledger they move funds between.                                     *)
(*                                                                         *)
(* One action is one browser task: a user call, a socket event, a timer    *)
(* or the wallet's answer, together with every promise continuation        *)
(* (microtask) it triggers.  The handlers are operators from a store (the  *)
(* record of all variables) to a store, so that a continuation that runs   *)
(* between two listeners of one message event sees what the first did.     *)
(*                                                                         *)
(* A sendMessage invocation is kept for as long as the program can still   *)
(* reach it: while its promise is pending or its listener is registered.   *)
(* What a task settled is written to the log of the store it returns.      *)
(***************************************************************************)
EXTENDS Integers, Sequences, FiniteSets, TLC

\* connect() invocations that open a socket; socket i is the one opened by
\* invocation i
MaxConnects == 2
\* sendMessage invocations alive at a time
MaxCalls == 3
\* request ids 1..MaxReqId (frames may also carry the server's own id 0).  Only
\* the equality of ids matters to the code, so a new request takes an id in
\* use or the smallest id not in use.
MaxReqId == 2
\* depositToYellow / recoverCustodyFunds invocations
MaxJobs == 2
\* amounts, in units of the token
MaxAmount == 2
\* tokens the custody contract holds channels of
MaxTokens == 3

Procs == 1..MaxConnects
Socks == 1..MaxConnects
ReqIds == 1..MaxReqId
Jobs == 1..MaxJobs
Amounts == 1..MaxAmount
Tokens == 1..MaxTokens
\* requestId stays null when the outgoing message has no req array
NullId == -1
\* wsRef.current = null, signerRef.current = null
Null == 0

VARIABLES
  rs,           \* readyState of every socket
  wsRef,        \* wsRef.current
  signerRef,    \* signerRef.current: the invocation whose session key it signs with
  state,        \* the YellowState fields isConnected, isAuthenticated, error,
                \* balances, custodyBalance
  isConnecting, \* the isConnecting flag
  listeners,    \* per socket, the registered handleMessage listeners (calls), in order
  calls,        \* the sendMessage invocations alive, by slot
  procs,        \* the connect() invocations: where each stands
  jobs,         \* the depositToYellow / recoverCustodyFunds invocations
  chain,        \* the wallet's account, the custody contract and the ledger
  ensure,       \* Step 1 of depositToYellow with the tokens told apart
  effect,       \* the effect 'Handle incoming messages': whether it has run, and
                \* the socket its handleMessage is registered on
  pay           \* PaymentForm in wallet mode: walletPayStep, the swap's status,
                \* whether there is a quote, walletPayError, the deposit it
                \* awaits, and the sendPayment invocations in flight

vars == <<rs, wsRef, signerRef, state, isConnecting, listeners, calls, procs,
          jobs, chain, ensure, effect, pay>>

\* ------------------------------------------------------------------ text
\* A message is a sequence of fragments; includes() looks for a fragment.
Includes(msg, frag) == \E i \in 1..Len(msg) : msg[i] = frag

NoError == <<>>
WalletNotConnectedMsg == <<"Wallet not connected">>
NotConnectedMsg == <<"WebSocket", " not connected">>
ConnectionFailedMsg == <<"WebSocket", " connection failed">>
RequestTimeoutMsg == <<"Request ", "timeout">>
UnsuccessfulMsg == <<"Authentication failed - verification unsuccessful">>
GenericUserMsg == <<"Unable to connect. Please try again.">>
NetworkUserMsg == <<"Network connection failed. Please check your internet and try again.">>
TimeoutUserMsg == <<"Connection timed out. Please try again.">>
DeclinedUserMsg == <<"Signature request was declined.">>

\* error strings a server may put in an error frame (<<>>: none given)
ServerErrors ==
  { <<>>,
    <<"invalid challenge or signature">>,
    <<"session key ", "rejected">> }

\* messages the wallet may fail with when asked for the EIP-712 signature
WalletErrors == { <<"User ", "rejected", " the request.">>, <<"Internal JSON-RPC error.">> }

AuthErrorMsg(errorParams) ==
  LET errorMsg == IF errorParams = <<>> THEN <<"Unknown authentication error">>
                  ELSE errorParams
  IN  <<"Authentication error", ": ">> \o errorMsg

\* parseAuthChallengeResponse / parseAuthVerifyResponse on a frame of another
\* method: the library's own message, which names the methods only
UnexpectedMethodMsg(method) == <<"Expected RPC method, but received '", method, "'">>

UserMessage(technicalMessage) ==
  IF Includes(technicalMessage, "WebSocket") THEN NetworkUserMsg
  ELSE IF Includes(technicalMessage, "timeout") THEN TimeoutUserMsg
  ELSE IF Includes(technicalMessage, "rejected") \/ Includes(technicalMessage, "denied")
       THEN DeclinedUserMsg
  ELSE IF Includes(technicalMessage, "Authentication error") THEN technicalMessage
  ELSE GenericUserMsg

\* ---------------------------------------------------------------- frames
Methods == {"auth_challenge", "auth_verify", "error", "bu", "result"}

\* An incoming frame: wf is "parses as JSON and has a res array"; id is res[0];
\* ok is params.success && params.jwtToken; err is params.error.
Frame(wf, id, method, ok, err) ==
  [wf |-> wf, id |-> id, method |-> method, ok |-> ok, err |-> err]

Frames ==
  { Frame(FALSE, 0, "result", FALSE, <<>>) }
  \cup { Frame(TRUE, i, m, FALSE, <<>>) : i \in 0..MaxReqId, m \in Methods \ {"error"} }
  \cup { Frame(TRUE, i, "auth_verify", TRUE, <<>>) : i \in 0..MaxReqId }
  \cup { Frame(TRUE, i, "error", FALSE, e) : i \in 0..MaxReqId, e \in ServerErrors }

NoFrame == Frame(FALSE, 0, "result", FALSE, <<>>)

\* ----------------------------------------------------------------- store
\* last: what the task has settled so far (promises, failed and authenticated
\* connect() invocations); ok: the task stays within the bounds of the model
Cur ==
  [rs |-> rs, wsRef |-> wsRef, signerRef |-> signerRef, state |-> state,
   isConnecting |-> isConnecting, listeners |-> listeners, calls |-> calls,
   procs |-> procs, jobs |-> jobs, chain |-> chain, ensure |-> ensure,
   effect |-> effect, pay |-> pay, last |-> <<>>, ok |-> TRUE]

Slots == 1..MaxCalls
Free == [st |-> "free"]

\* The slots in use, in order.  Which slot a call sits in means nothing to the
\* program, so the calls move up to the first slots when a task ends.
RECURSIVE InUse(_, _)
InUse(cs, c) ==
  IF c > MaxCalls THEN <<>>
  ELSE (IF cs[c].st = "free" THEN <<>> ELSE <<c>>) \o InUse(cs, c + 1)

Position(seq, x) == CHOOSE i \in 1..Len(seq) : seq[i] = x

Apply(S) ==
  LET used == InUse(S.calls, 1) IN
  /\ S.ok
  /\ rs' = S.rs
  /\ wsRef' = S.wsRef
  /\ signerRef' = S.signerRef
  /\ state' = S.state
  /\ isConnecting' = S.isConnecting
  /\ listeners' = [s \in Socks |->
                    [i \in 1..Len(S.listeners[s]) |-> Position(used, S.listeners[s][i])]]
  /\ calls' = [c \in Slots |-> IF c <= Len(used) THEN S.calls[used[c]] ELSE Free]
  /\ procs' = S.procs
  /\ jobs' = S.jobs
  /\ chain' = S.chain
  /\ ensure' = S.ensure
  /\ effect' = S.effect
  /\ pay' = S.pay

\* custodyBalance: the formatted amount, in units of the token ('0' is 0)
initialState ==
  [isConnected |-> FALSE, isAuthenticated |-> FALSE, error |-> NoError,
   balances |-> <<>>, custodyBalance |-> 0]

\* a connect() invocation: where it stands, and the sockets its auth_request
\* and its auth_verify went out on
IdleProc == [pc |-> "idle", reqSock |-> Null, verSock |-> Null]

\* a depositToYellow / recoverCustodyFunds invocation: which of the two,
\* what it awaits, its amount (amount / custodyAmount), the loop variable
\* attempt, the allocate requests it has sent, whether it has entered its
\* resize sequence; the ledger balance when it was called, and whether the custody
\* balance was 0 then with no transaction of the wallet on its way; its
\* variable channelId; the version of the state the server signed for the
\* resize it is about to submit, and what getChannelData showed it (the
\* versions submitted for the channel up to then)
IdleJob ==
  [kind |-> "none", pc |-> "idle", amt |-> 0, attempt |-> 0, allocs |-> 0,
   inSeq |-> FALSE, ledger0 |-> 0, clean |-> FALSE, channelId |-> "undefined",
   version |-> 0, seen |-> {}]

\* The account of the wallet: its tokens, its balance in the custody
\* contract, what its channel holds, its balance in the ledger, whether its
\* channel is open, the allowance of the custody contract, whether the
\* address has code (a smart account); and the transactions of the wallet
\* that are broadcast and not mined yet, in nonce order.  Of the channel: the
\* version of its state on-chain, the latest version the server has signed,
\* and the versions submitted on-chain so far.
Account(wallet, custody, channel, ledger, open, allowance, code) ==
  [wallet |-> wallet, custody |-> custody, channel |-> channel, ledger |-> ledger,
   open |-> open, allowance |-> allowance, code |-> code, txs |-> <<>>,
   version |-> 0, signed |-> 0, submitted |-> {}]

\* Step 1 of a depositToYellow(tokenAddress, ...) invocation: what it awaits,
\* its token, its variable channelId, whether it has sent a create_channel
\* request; open: the channels of the wallet that are open on-chain, in the
\* order getOpenChannels returns them (a channel is named by its token: there
\* is at most one per token); had: whether one of its token was open when it
\* was called
NoChannel == 0
IdleEnsure(open) ==
  [pc |-> "idle", tokenAddress |-> NoChannel, channelId |-> NoChannel,
   requested |-> FALSE, had |-> FALSE, open |-> open]

\* useEffect(() => { if (!wsRef.current) return;
\* wsRef.current.addEventListener('message', handleMessage) }, [fetchBalances]):
\* the effect runs when the provider is mounted; fetchBalances depends on
\* sendMessage alone, sendMessage on nothing, so it never runs again
NotMounted == [ran |-> FALSE, sock |-> Null]
RunEffect(ref) == [ran |-> TRUE, sock |-> ref]

\* PaymentForm as it is mounted: walletPayStep 'idle', swapTxHash null (no
\* swap status), no quote, walletPayError null; job: the depositToYellow
\* invocation doDeposit awaits or has awaited; sends: what each sendPayment
\* invocation in flight awaits
IdlePay ==
  [step |-> "idle", swap |-> "NONE", quote |-> FALSE, error |-> FALSE,
   job |-> Null, sends |-> <<>>]

\* the provider mounted, nothing called yet
Session ==
  /\ pay = IdlePay
  /\ rs = [s \in Socks |-> "NONE"]
  /\ wsRef = Null
  /\ signerRef = Null
  /\ state = initialState
  /\ isConnecting = FALSE
  /\ listeners = [s \in Socks |-> <<>>]
  /\ calls = [c \in Slots |-> Free]
  /\ procs = [p \in Procs |-> IdleProc]

Init ==
  /\ jobs = [j \in Jobs |-> IdleJob]
  /\ ensure = IdleEnsure(<<>>)
  /\ effect = RunEffect(Null)
  /\ chain = Account(MaxAmount, 0, 0, 0, FALSE, 0, FALSE)
  /\ Session

Range(seq) == {seq[i] : i \in 1..Len(seq)}
Remove(seq, x) == SelectSeq(seq, LAMBDA y : y # x)

\* ws.close(): a socket not yet closed starts closing
CloseSocket(S, s) ==
  IF s # Null /\ S.rs[s] \in {"CONNECTING", "OPEN"}
  THEN [S EXCEPT !.rs[s] = "CLOSING"]
  ELSE S

\* wsRef.current?.removeEventListener('message', handleMessage)
RemoveListener(S, c) ==
  IF S.wsRef = Null THEN S
  ELSE [S EXCEPT !.listeners[S.wsRef] = Remove(@, c)]

\* ------------------------------------------------------------- handlers
\* A sendMessage invocation: its requestId, the socket its listener was added
\* to, its promise, who awaits it, and the session key its message was signed
\* with (the connect() invocation that generated the key).
\* const APPLICATION_NAME = 'yellowpay'
APPLICATION_NAME == "yellowpay"
\* DEFAULT_ASSET outside the sandbox
DEFAULT_ASSET == "usdc"
\* expiresAt = now + 86400, in seconds
DayInSeconds == 86400

\* the constants of a connect() invocation p: the address of the session key
\* it generated (named by the invocation), expiresAt (the invocations are
\* numbered in time), allowances, scope
SessionKey(p) == p
ExpiresAt(p) == p + DayInSeconds
Allowances_Empty == <<>>
Allowances == <<[asset |-> DEFAULT_ASSET, amount |-> "1000000000"]>>
Scope == "console"

\* what a message of the handshake carries: app is `application` in
\* auth_request, and the name of the EIP-712 domain the wallet signs under in
\* auth_verify; the rest is the request's parameters, and the partialMessage
\* the wallet signs
NoParams ==
  [app |-> "", scope |-> "", session_key |-> Null, expires_at |-> 0, allowances |-> <<>>]
AuthRequest(p) ==
  [app |-> APPLICATION_NAME, scope |-> Scope, session_key |-> SessionKey(p),
   expires_at |-> ExpiresAt(p), allowances |-> Allowances]
AuthVerify_OwnDomain(p) == [AuthRequest(p) EXCEPT !.app = "Yellow Pay"]
AuthVerify(p) ==
  [app |-> APPLICATION_NAME, scope |-> Scope, session_key |-> SessionKey(p),
   expires_at |-> ExpiresAt(p), allowances |-> Allowances]
Params(kind, owner) ==
  CASE kind = "auth_request" -> AuthRequest(owner)
    [] kind = "auth_verify" -> AuthVerify(owner)
    [] OTHER -> NoParams

Call(rid, sock, st, kind, owner, signer) ==
  [rid |-> rid, sock |-> sock, st |-> st, kind |-> kind, owner |-> owner,
   signer |-> signer, params |-> Params(kind, owner)]

\* log entries: a promise settled (got: res[0] of the frame it resolved with,
\* why: what it was rejected for), a connect() that reached its catch block
\* (what it failed on, the server's error string if any, the userMessage),
\* a connect() that installed its signer
SettledEntry(c, call, st, got, why) ==
  [type |-> "settled", slot |-> c, rid |-> call.rid, sock |-> call.sock,
   kind |-> call.kind, owner |-> call.owner, st |-> st, got |-> got, why |-> why]

FailedEntry(p, cause, srvErr, userMessage) ==
  [type |-> "failed", owner |-> p, cause |-> cause, srvErr |-> srvErr,
   userMessage |-> userMessage]

AuthenticatedEntry(p, ws, reqSock) ==
  [type |-> "authenticated", owner |-> p, ws |-> ws, reqSock |-> reqSock]

Log(S, entry) == [S EXCEPT !.last = Append(@, entry)]

FetchKinds == {"balances", "channels"}

\* A settled call whose listener is registered nowhere is out of reach.  One
\* whose listener is still registered has nobody awaiting it any more.
Forget(S, c) ==
  IF S.calls[c].st \notin {"resolved", "rejected"} THEN S
  ELSE IF c \notin Range(S.listeners[S.calls[c].sock])
  THEN [S EXCEPT !.calls[c] = Free]
  ELSE [S EXCEPT !.calls[c].kind = "none", !.calls[c].owner = Null,
                 !.calls[c].signer = Null, !.calls[c].params = NoParams]

\* catch block of connect: the user-facing message, then close and forget
\* whatever socket wsRef holds now
Catch(S, p, cause, srvErr, technicalMessage) ==
  LET userMessage == UserMessage(technicalMessage)
      S1 == [S EXCEPT !.state.error = userMessage]
      S2 == CloseSocket(S1, S1.wsRef)
  IN  Log([S2 EXCEPT !.wsRef = Null,
                     !.isConnecting = FALSE,
                     !.procs[p] = [IdleProc EXCEPT !.pc = "failed"]],
          FailedEntry(p, cause, srvErr, userMessage))

\* what a rejected sendMessage promise throws into its caller
RejectionMsg(why) ==
  IF why = "timeout" THEN RequestTimeoutMsg ELSE NotConnectedMsg

RejectionCause(why) == IF why = "timeout" THEN "timeout" ELSE "transport"

\* connect resumes when Promise.all([fetchBalances(), fetchChannels()]) settles
CheckPostAuth(S, p) ==
  IF /\ S.procs[p].pc = "postauth"
     /\ \A c \in Slots :
          (S.calls[c].st = "pending" /\ S.calls[c].owner = p)
            => S.calls[c].kind \notin FetchKinds
  THEN [S EXCEPT !.procs[p].pc = "done", !.isConnecting = FALSE]
  ELSE S

\* request ids for messages no continuation will build
NoIds == <<NullId, NullId>>

\* the ids a new request may take
UsedIds(S) == {S.calls[c].rid : c \in {d \in Slots : S.calls[d].st # "free"}}
NewIds(S) ==
  LET unused == ReqIds \ UsedIds(S) IN
  UsedIds(S) \cup {i \in unused : \A j \in unused : i <= j}

FreeSlots(S) == {c \in Slots : S.calls[c].st = "free"}

\* the key a message of this kind is signed with: signerRef.current for the
\* queries, none for the handshake messages
SignerOf(S, kind) == IF kind \in FetchKinds THEN S.signerRef ELSE Null

RECURSIVE SendMessage(_, _, _, _), Settled(_, _, _, _, _)

\* sendMessage: the promise executor
SendMessage(S, kind, owner, rid) ==
  IF S.wsRef = Null \/ S.rs[S.wsRef] # "OPEN"
  THEN LET call == Call(rid, Null, "rejected", kind, owner, SignerOf(S, kind)) IN
       Settled(Log(S, SettledEntry(Null, call, "rejected", NullId, "notconnected")),
               call, "notconnected", NoFrame, NoIds)
  ELSE IF FreeSlots(S) = {} \/ rid \notin NewIds(S)
  THEN [S EXCEPT !.ok = FALSE]
  ELSE LET c == CHOOSE d \in FreeSlots(S) : \A e \in FreeSlots(S) : d <= e IN
       [S EXCEPT !.calls[c] = Call(rid, S.wsRef, "pending", kind, owner, SignerOf(S, kind)),
                 !.listeners[S.wsRef] = Append(@, c)]

\* fetchBalances / fetchChannels up to the send
Fetch(S, kind, owner, rid) ==
  IF S.signerRef = Null \/ S.wsRef = Null THEN S
  ELSE SendMessage(S, kind, owner, rid)

\* connect after `await sendMessage(authRequestMsg)`
ConnectAfterChallenge(S, p, why, f) ==
  IF why # "none"
  THEN Catch(S, p, RejectionCause(why), <<>>, RejectionMsg(why))
  ELSE IF f.method = "auth_challenge"
  THEN [S EXCEPT !.procs[p].pc = "signing"]
  ELSE Catch(S, p, IF f.method = "error" THEN "server_error" ELSE "protocol",
             f.err, UnexpectedMethodMsg(f.method))

\* connect after `await sendMessage(authVerifyMsg)`; ids are the request ids
\* of the two queries it makes once authenticated
ConnectAfterVerify(S, p, why, f, ids) ==
  IF why # "none"
  THEN Catch(S, p, RejectionCause(why), <<>>, RejectionMsg(why))
  ELSE IF f.method = "error"
  THEN Catch(S, p, "server_error", f.err, AuthErrorMsg(f.err))
  ELSE IF f.method # "auth_verify"
  THEN Catch(S, p, "protocol", <<>>, UnexpectedMethodMsg(f.method))
  ELSE IF f.ok
  THEN LET S1 == Log([S EXCEPT !.signerRef = p,
                               !.state.isAuthenticated = TRUE,
                               !.procs[p].pc = "fetching"],
                     AuthenticatedEntry(p, S.wsRef, S.procs[p].reqSock))
           S2 == Fetch(S1, "balances", p, ids[1])
           S3 == Fetch(S2, "channels", p, ids[2])
       IN  CheckPostAuth([S3 EXCEPT !.procs[p].pc = "postauth"], p)
  ELSE Catch(S, p, "unsuccessful", <<>>, UnsuccessfulMsg)

\* The code awaiting a call runs on, the call being resolved with frame f
\* (why = "none") or rejected for why.
Settled(S, call, why, f, ids) ==
  IF call.kind = "auth_request" THEN ConnectAfterChallenge(S, call.owner, why, f)
  ELSE IF call.kind = "auth_verify" THEN ConnectAfterVerify(S, call.owner, why, f, ids)
  ELSE IF call.owner = Null THEN S
  ELSE CheckPostAuth(S, call.owner)

\* the null test of line 149 inverted
Matches_NullTestInverted(S, c, f) ==
  S.calls[c].rid # NullId \/ f.id = S.calls[c].rid

\* first in, first out: the oldest listener of the socket takes the response
Matches_Fifo(S, c, f) ==
  LET ls == S.listeners[S.calls[c].sock] IN ls # <<>> /\ Head(ls) = c

\* line 149: a frame is ours when the ids agree (or we have no id)
Matches(S, c, f) == S.calls[c].rid = NullId \/ f.id = S.calls[c].rid

\* resolve(data) / reject(err): a settled promise stays as it is
Resolve(S, c, f, ids) ==
  LET call == S.calls[c] IN
  IF call.st = "pending"
  THEN Settled(Forget(Log([S EXCEPT !.calls[c].st = "resolved"],
                          SettledEntry(c, call, "resolved", f.id, "none")), c),
               call, "none", f, ids)
  ELSE Forget(S, c)

Reject(S, c, why) ==
  LET call == S.calls[c] IN
  IF call.st = "pending"
  THEN Settled(Forget(Log([S EXCEPT !.calls[c].st = "rejected"],
                          SettledEntry(c, call, "rejected", NullId, why)), c),
               call, why, NoFrame, NoIds)
  ELSE Forget(S, c)

\* handleMessage without the id test of lines 147-151
HandleMessage_NoIdTest(S, c, f, ids) ==
  IF ~f.wf THEN S
  ELSE Resolve(RemoveListener(S, c), c, f, ids)

\* handleMessage with a catch block that rejects the promise
HandleMessage_RejectsMalformed(S, c, f, ids) ==
  IF ~f.wf THEN Reject(RemoveListener(S, c), c, "parse")
  ELSE IF ~Matches(S, c, f) THEN S
  ELSE Resolve(RemoveListener(S, c), c, f, ids)

\* handleMessage of call c, for one message event
HandleMessage(S, c, f, ids) ==
  IF ~f.wf THEN S
  ELSE IF ~Matches(S, c, f) THEN S
  ELSE Resolve(RemoveListener(S, c), c, f, ids)

\* one message event: the listeners registered when it is dispatched run in
\* order, each followed by the continuations it released
RECURSIVE Dispatch(_, _, _, _)
Dispatch(S, ls, f, ids) ==
  IF ls = <<>> THEN S
  ELSE Dispatch(HandleMessage(S, Head(ls), f, ids), Tail(ls), f, ids)

\* a timer callback that drops every listener of the socket
TimeoutCall_DropsAllListeners(S, c) ==
  Reject(IF S.wsRef = Null THEN S ELSE [S EXCEPT !.listeners[S.wsRef] = <<>>],
         c, "timeout")

\* a timer callback that forgets to reject
TimeoutCall_NoReject(S, c) == RemoveListener(S, c)

\* the setTimeout callback of call c
TimeoutCall(S, c) == Reject(RemoveListener(S, c), c, "timeout")

\* an onclose handler that reconnects by itself
OnClose_Reconnects(S) ==
  LET S1 == [S EXCEPT !.state.isConnected = FALSE, !.state.isAuthenticated = FALSE]
      free == {p \in Procs : S.procs[p].pc = "idle"}
  IN  IF free = {} THEN S1
      ELSE LET p == CHOOSE q \in free : \A r \in free : q <= r IN
           [S1 EXCEPT !.isConnecting = TRUE, !.rs[p] = "CONNECTING", !.wsRef = p,
                      !.procs[p].pc = "opening"]

\* ws.onclose
OnClose(S) ==
  [S EXCEPT !.state.isConnected = FALSE, !.state.isAuthenticated = FALSE]

\* a disconnect that keeps the session key
disconnect_KeepsSigner(S) ==
  [CloseSocket(S, S.wsRef) EXCEPT !.wsRef = Null, !.state = initialState]

disconnect(S) ==
  [CloseSocket(S, S.wsRef) EXCEPT !.wsRef = Null, !.signerRef = Null,
                                  !.state = initialState]

\* -------------------------------------------------------------- actions
\* Each action is a task of the event loop; the stores it can end in are
\* collected in a set, so that a property can speak of what a task settles.
FreeProcs == {p \in Procs : procs[p].pc = "idle"}

\* connect() with no wallet: lines 176-179
ConnectNoWalletTasks ==
  IF state.error # WalletNotConnectedMsg
  THEN {[Cur EXCEPT !.state.error = WalletNotConnectedMsg]}
  ELSE {}

ConnectNoWallet == \E S \in ConnectNoWalletTasks : Apply(S)

\* connect() up to the first await: lines 181-204
ConnectTasks ==
  IF ~(wsRef # Null /\ rs[wsRef] = "OPEN") /\ FreeProcs # {}
  THEN LET p == CHOOSE q \in FreeProcs : \A r \in FreeProcs : q <= r IN
       {[Cur EXCEPT !.isConnecting = TRUE,
                    !.state.error = NoError,
                    !.rs[p] = "CONNECTING",
                    !.wsRef = p,
                    !.procs[p].pc = "opening"]}
  ELSE {}

Connect == \E S \in ConnectTasks : Apply(S)

\* ws.onopen, then connect up to `await sendMessage(authRequestMsg)`
SocketOpenTasks(s) ==
  IF rs[s] = "CONNECTING"
  THEN LET S1 == [Cur EXCEPT !.rs[s] = "OPEN"] IN
       IF procs[s].pc = "opening"
       THEN {SendMessage([S1 EXCEPT !.state.isConnected = TRUE,
                                    !.procs[s].pc = "challenge",
                                    !.procs[s].reqSock = S1.wsRef],
                         "auth_request", s, rid) : rid \in ReqIds}
       ELSE {S1}
  ELSE {}

SocketOpen(s) == \E S \in SocketOpenTasks(s) : Apply(S)

\* The socket closes: the connection fails, the server or the network drops
\* it, or a close() completes.  A socket that never opened fires error first.
SocketCloseTasks(s) ==
  IF rs[s] \in {"CONNECTING", "OPEN", "CLOSING"}
  THEN LET S1 == [Cur EXCEPT !.rs[s] = "CLOSED"]
           S2 == IF procs[s].pc = "opening"
                 THEN Catch(S1, s, "transport", <<>>, ConnectionFailedMsg)
                 ELSE S1
       IN  {OnClose(S2)}
  ELSE {}

SocketClose(s) == \E S \in SocketCloseTasks(s) : Apply(S)

\* the wallet answers the EIP-712 signature request of createAuthVerifyMessage
WalletSignsTasks(p) ==
  IF procs[p].pc = "signing"
  THEN {SendMessage([Cur EXCEPT !.procs[p].pc = "verify",
                                !.procs[p].verSock = wsRef],
                     "auth_verify", p, rid) : rid \in ReqIds}
  ELSE {}

WalletSigns(p) == \E S \in WalletSignsTasks(p) : Apply(S)

WalletRefusesTasks(p) ==
  IF procs[p].pc = "signing"
  THEN {Catch(Cur, p, "wallet", <<>>, m) : m \in WalletErrors}
  ELSE {}

WalletRefuses(p) == \E S \in WalletRefusesTasks(p) : Apply(S)

\* the request ids of the queries connect makes when frame f authenticates it
IdPairs(f) == IF f.ok THEN ReqIds \X ReqIds ELSE {NoIds}

\* params.balanceUpdates of a 'bu' frame: missing or empty, or balances
BalanceUpdates == {<<>>, <<[asset |-> "usdc", amount |-> 1]>>}

\* handleMessage of the effect, registered on socket effect.sock, for one
\* message event on socket s: a 'bu' frame puts its balanceUpdates, if any,
\* in the cache, and fetchBalances() is called
\* if (Array.isArray(updates) && updates.length > 0)
\*   setState(prev => ({ ...prev, balances: updates }))
PushedBalances(balances, updates) == IF Len(updates) > 0 THEN updates ELSE balances

OnPush(S, s, f, updates, rid) ==
  IF S.effect.sock # s \/ ~f.wf \/ f.method # "bu" THEN S
  ELSE Fetch([S EXCEPT !.state.balances = PushedBalances(@, updates)],
             "balances", Null, rid)

\* one message event: the handler of the effect was registered before the
\* listeners of the calls
Delivered(S, s, f, ids, updates, rid) ==
  Dispatch(OnPush(S, s, f, updates, rid), S.listeners[s], f, ids)

\* what a frame carries besides, and the id of the query the handler makes
PushInputs(s, f) ==
  (IF f.method = "bu" THEN BalanceUpdates ELSE {<<>>})
    \X (IF f.method = "bu" /\ effect.sock = s THEN ReqIds ELSE {NullId})

\* a frame arrives on an open socket
DeliverTasks(s) ==
  IF rs[s] = "OPEN"
  THEN UNION {{Delivered(Cur, s, f, ids, in[1], in[2]) :
                 ids \in IdPairs(f), in \in PushInputs(s, f)} : f \in Frames}
  ELSE {}

Deliver(s) == \E S \in DeliverTasks(s) : Apply(S)

\* The 30 s timer of call c fires.  (It also fires for a settled call, where
\* it changes nothing: the promise is settled, and the listener is gone or
\* sits on a socket that wsRef no longer names.)
TimeoutTasks(c) ==
  IF calls[c].st = "pending" THEN {TimeoutCall(Cur, c)} ELSE {}

Timeout(c) == \E S \in TimeoutTasks(c) : Apply(S)

DisconnectTasks == {disconnect(Cur)}

Disconnect == \E S \in DisconnectTasks : Apply(S)

Next ==
  \/ ConnectNoWallet
  \/ Connect
  \/ \E s \in Socks : SocketOpen(s)
  \/ \E s \in Socks : SocketClose(s)
  \/ \E p \in Procs : WalletSigns(p)
  \/ \E p \in Procs : WalletRefuses(p)
  \/ \E s \in Socks : Deliver(s)
  \/ \E c \in Slots : Timeout(c)
  \/ Disconnect

\* every store a task can end in from the current state, within the bounds
Tasks ==
  {S \in ConnectNoWalletTasks \cup ConnectTasks \cup DisconnectTasks
           \cup UNION {SocketOpenTasks(s) \cup SocketCloseTasks(s) \cup DeliverTasks(s) :
                         s \in Socks}
           \cup UNION {WalletSignsTasks(p) \cup WalletRefusesTasks(p) : p \in Procs}
           \cup UNION {TimeoutTasks(c) : c \in Slots} : S.ok}

Spec == Init /\ [][Next]_vars

\* the provider is mounted: its effects run
MountTasks ==
  IF ~effect.ran THEN {[Cur EXCEPT !.effect = RunEffect(wsRef)]} ELSE {}
Mount == \E S \in MountTasks : Apply(S)

\* the session from before the provider is mounted; the application can call
\* connect() only once it is
PushInit ==
  /\ Session
  /\ chain = Account(MaxAmount, 0, 0, 0, FALSE, 0, FALSE)
  /\ jobs = [j \in Jobs |-> IdleJob]
  /\ ensure = IdleEnsure(<<>>)
  /\ effect = NotMounted

PushNext ==
  \/ Mount
  \/ effect.ran /\ Next

PushSpec == PushInit /\ [][PushNext]_vars

\* fetchBalances() called by the application on its own: a component (after
\* a deposit), the 30 s heartbeat, the handler of balance updates
FetchBalancesTasks ==
  IF signerRef # Null /\ wsRef # Null
  THEN {Fetch(Cur, "balances", Null, rid) : rid \in ReqIds}
  ELSE {}

FetchBalances == \E S \in FetchBalancesTasks : Apply(S)

\* the session together with the queries the application makes
ApiNext ==
  \/ Next
  \/ FetchBalances

ApiSpec == Init /\ [][ApiNext]_vars

\* ------------------------------------------------------------ the sagas
\* for (let attempt = 0; attempt < 6; attempt++)
MaxAttempts == 6
\* ... && attempt < 5: the last attempt that is retried
LastRetried_OneLess == MaxAttempts - 2
LastRetried == 5
\* const delay = attempt * 3000
RetryDelay == 3000

AlreadyExists == "already exists: 0x"
ResizeOngoing == "resize already ongoing"
\* error strings of the server
SagaErrors == {<<"channel ", AlreadyExists>>,
               <<"operation denied: ", ResizeOngoing>>,
               <<"insufficient balance">>}

\* what `await sendMessage(msg)` gives a saga: a response of some method (with
\* the server's error string if the method is 'error'), or a rejection
Answer(method, err) == [method |-> method, err |-> err]

ExpectedMethod(what) ==
  CASE what = "create_channel" -> "create_channel"
    [] what = "get_config" -> "get_config"
    [] what \in {"resize", "allocate"} -> "resize_channel"
    [] what = "balances" -> "get_ledger_balances"
    [] what = "channels" -> "get_channels"
    [] what = "close_channel" -> "close_channel"
    [] what = "withdraw_resize" -> "resize_channel"
    [] what = "refresh_both" -> "get_ledger_balances"
    [] what = "refresh_one" -> "get_channels"

Answers(what) ==
  {Answer(ExpectedMethod(what), NoError), Answer("other", NoError),
   Answer("rejected", RequestTimeoutMsg)}
    \cup {Answer("error", e) : e \in SagaErrors}

RequestPcs == {"create_channel", "get_config", "resize", "allocate", "balances", "channels",
               "close_channel", "withdraw_resize", "refresh_both", "refresh_one"}
\* a promise of the nitrolite client: getChannelData, or a call that submits
\* a transaction
LibraryPcs == {"resize_read", "allocate_read",
               "approve", "deposit", "resize_tx", "allocate_tx", "withdrawal", "fallback"}
InFlight(job) == job.pc \notin {"idle", "done", "failed"}

\* -- the custody contract and the ledger, as the code describes them
Tx(j, kind, amt, version) == [job |-> j, kind |-> kind, amt |-> amt, version |-> version]

\* the kinds of transaction that carry a state of the channel
Transitions == {"create", "resize", "allocate"}

\* the custody contract takes a new state of a channel only above the version
\* of the state it holds
Accepts(ch, kind, version) == kind \in {"resize", "allocate"} => version > ch.version

\* would the call succeed in this state (what simulating it finds when it is
\* submitted, and what decides whether it takes effect when it is mined)
Holds(ch, kind, amt) ==
  CASE kind = "create" -> ~ch.open
    [] kind = "approve" -> TRUE
    [] kind = "deposit" -> ch.wallet >= amt /\ ch.allowance >= amt
    [] kind = "resize" -> ch.open /\ ch.custody >= amt
    [] kind = "allocate" -> ch.open /\ ch.channel >= amt
    [] kind = "withdrawal" -> ch.custody >= amt

Effect(ch, kind, amt) ==
  CASE kind = "create" -> [ch EXCEPT !.open = TRUE]
    [] kind = "approve" -> [ch EXCEPT !.allowance = amt]
    [] kind = "deposit" -> [ch EXCEPT !.wallet = @ - amt, !.allowance = @ - amt,
                                      !.custody = @ + amt]
    [] kind = "resize" -> [ch EXCEPT !.custody = @ - amt, !.channel = @ + amt]
    [] kind = "allocate" -> [ch EXCEPT !.channel = @ - amt, !.ledger = @ + amt]
    [] kind = "withdrawal" -> [ch EXCEPT !.custody = @ - amt, !.wallet = @ + amt]

\* the oldest transaction of the wallet is mined: it takes effect or reverts
MineHead(ch) ==
  LET tx == Head(ch.txs)
      rest == [ch EXCEPT !.txs = Tail(@)]
  IN  IF Holds(rest, tx.kind, tx.amt) /\ Accepts(rest, tx.kind, tx.version)
      THEN [Effect(rest, tx.kind, tx.amt) EXCEPT
              !.version = IF tx.kind \in Transitions THEN tx.version ELSE @]
      ELSE rest

\* transactions of job j that are broadcast and not mined
Unmined(S, j) == {i \in 1..Len(S.chain.txs) : S.chain.txs[i].job = j}

\* -- log entries: a request sent, a transaction submitted, the wallet asked
\* to sign a channel state, a delay started, an exception raised in the resize
\* sequence, the saga thrown out of or returned from
RequestEntry(S, j, what, amt) ==
  [type |-> "request", job |-> j, what |-> what, amt |-> amt,
   attempt |-> S.jobs[j].attempt, unmined |-> Unmined(S, j) # {},
   channel_id |-> IF what \in {"resize", "allocate", "close_channel", "withdraw_resize"}
                  THEN S.jobs[j].channelId ELSE "undefined",
   resize_amount |-> IF what \in {"resize", "withdraw_resize"} THEN amt ELSE 0,
   allocate_amount |-> IF what = "allocate" THEN amt ELSE 0]
TxEntry(S, j, kind, amt) ==
  [type |-> "tx", job |-> j, what |-> kind, amt |-> amt, unmined |-> Unmined(S, j) # {},
   version |-> S.jobs[j].version, seen |-> S.jobs[j].seen,
   submitted |-> S.chain.submitted]
SignEntry(j) == [type |-> "sign", job |-> j]
WaitEntry(j, ms) == [type |-> "wait", job |-> j, ms |-> ms]
RaisedEntry(j, from, msg) == [type |-> "raised", job |-> j, from |-> from, msg |-> msg]
ThrownEntry(j, from, msg) == [type |-> "thrown", job |-> j, from |-> from, msg |-> msg]
ReturnedEntry(j, from) == [type |-> "returned", job |-> j, from |-> from]

\* an error and the errors reachable through `cause`, outermost first; the
\* nitrolite client wraps what viem throws, the revert reason being the
\* deepest cause
Cause(shortMessage, message) == [shortMessage |-> shortMessage, message |-> message]
RevertReason == <<"execution reverted">>
WalletError ==
  [message |-> <<"User rejected the request.">>, causes |-> <<>>]
SimulationError ==
  [message |-> <<"Contract call simulation failed">>,
   causes |-> <<Cause(<<"The contract function reverted.">>,
                      <<"The contract function reverted.", " Contract Call: ">>),
                Cause(<<>>, RevertReason)>>]

\* the catch block of both sagas: error.message, then ' | ' and the
\* shortMessage, else the message, of every cause that has one
RECURSIVE JoinCauses(_)
JoinCauses(causes) ==
  IF causes = <<>> THEN <<>>
  ELSE LET c == Head(causes) IN
       (IF c.shortMessage # <<>> THEN <<" | ">> \o c.shortMessage
        ELSE IF c.message # <<>> THEN <<" | ">> \o c.message
        ELSE <<>>) \o JoinCauses(Tail(causes))
TechnicalMessage_WrapperOnly(error) == error.message
TechnicalMessage(error) == error.message \o JoinCauses(error.causes)

WalletFailedMsg == TechnicalMessage(WalletError)
SimulationFailedMsg == TechnicalMessage(SimulationError)
SmartAccountMsg == <<"Your wallet has an EIP-7702 smart account delegation that prevents channel creation. ">>
ParseFailedMsg == <<"Invalid response">>

\* the outer catch block: the message goes to state.error and is rethrown
SagaCatch(S, j, msg) ==
  Log([S EXCEPT !.state.error = msg, !.jobs[j].pc = "failed", !.jobs[j].attempt = 0,
                !.jobs[j].allocs = 0, !.jobs[j].version = 0, !.jobs[j].seen = {}],
      ThrownEntry(j, S.jobs[j].pc, msg))

SagaReturn(S, j) ==
  Log([S EXCEPT !.jobs[j].pc = "done", !.jobs[j].attempt = 0, !.jobs[j].allocs = 0,
                !.jobs[j].version = 0, !.jobs[j].seen = {}],
      ReturnedEntry(j, S.jobs[j].pc))

\* writeContract / a write of the nitrolite client: the call is simulated,
\* the wallet is asked (w: it agrees), the transaction is broadcast
CanSubmit(S, kind, amt, w) == w /\ Holds(S.chain, kind, amt)
SubmitFailedMsg(w) == IF w THEN SimulationFailedMsg ELSE WalletFailedMsg

Submit(S, j, kind, pc, amt) ==
  LET version == IF kind \in Transitions THEN S.jobs[j].version ELSE 0 IN
  Log([S EXCEPT !.chain.txs = Append(@, Tx(j, kind, amt, version)),
                !.chain.submitted = IF kind \in Transitions THEN @ \cup {version} ELSE @,
                !.jobs[j].pc = pc, !.jobs[j].seen = {}],
      TxEntry(S, j, kind, amt))

\* recoverCustodyFunds, catch (resizeError): nitroliteClient.withdrawal(token,
\* custodyAmount); what it throws goes to the outer catch block
Fallback(S, j, w) ==
  LET amt == S.jobs[j].amt IN
  IF CanSubmit(S, "withdrawal", amt, w[2])
  THEN Submit(S, j, "withdrawal", "fallback", amt)
  ELSE SagaCatch(S, j, SubmitFailedMsg(w[2]))

\* an exception: inside the try block of the resize sequence of
\* recoverCustodyFunds it is caught by the fallback, elsewhere by the outer
\* catch block
Throw(S, j, inTry, msg, w) ==
  LET S1 == Log(S, RaisedEntry(j, S.jobs[j].pc, msg)) IN
  IF inTry /\ S.jobs[j].kind = "recover" THEN Fallback(S1, j, w)
  ELSE SagaCatch(S1, j, msg)

\* await sendMessage(msg) in a saga
SagaRequest(S, j, what, amt, inTry, w) ==
  IF S.wsRef = Null \/ S.rs[S.wsRef] # "OPEN"
  THEN Throw(S, j, inTry, NotConnectedMsg, w)
  ELSE Log([S EXCEPT !.jobs[j].pc = what], RequestEntry(S, j, what, amt))

\* resize_amount of the phase 1 request, allocate_amount of the phase 2
\* request; the state the server signs in answer moves that amount
ResizeAmount_None(job) == 0
ResizeAmount(job) == job.amt
AllocateAmount_OneShort(job) == job.amt - 1
AllocateAmount(job) == job.amt

\* Step 2 of depositToYellow: the custody deposit
DepositCustody(S, j, w) ==
  LET amt == S.jobs[j].amt IN
  IF CanSubmit(S, "deposit", amt, w[1])
  THEN Submit(S, j, "deposit", "deposit", amt)
  ELSE SagaCatch(S, j, SubmitFailedMsg(w[1]))

\* Step 2 of depositToYellow: approve when the allowance is short
DepositApprove(S, j, w) ==
  LET amt == S.jobs[j].amt IN
  IF S.chain.allowance < amt
  THEN IF CanSubmit(S, "approve", amt, w[1])
       THEN Submit(S, j, "approve", "approve", amt)
       ELSE SagaCatch(S, j, SubmitFailedMsg(w[1]))
  ELSE DepositCustody(S, j, w)

\* the id of the wallet's channel
ChannelId == "0xc"

\* the channel is there: on to the custody deposit (depositToYellow) or to
\* get_config (recoverCustodyFunds)
ChannelReady(S, j, w) ==
  LET S1 == [S EXCEPT !.jobs[j].channelId = ChannelId] IN
  IF S.jobs[j].kind = "deposit" THEN DepositApprove(S1, j, w)
  ELSE SagaRequest(S1, j, "get_config", 0, FALSE, w)

\* signMessage of the initial state, simulateContract, writeContract
CreateOnChain(S, j, w) ==
  LET S1 == Log(S, SignEntry(j)) IN
  IF CanSubmit(S1, "create", 0, w[1])
  THEN Submit(S1, j, "create", "create_receipt", 0)
  ELSE SagaCatch(S1, j, SubmitFailedMsg(w[1]))

DepositCreate_SignsFirst(S, j, w) ==
  LET S1 == CreateOnChain(S, j, w) IN
  IF S.chain.code THEN SagaCatch(S1, j, SmartAccountMsg) ELSE S1

\* depositToYellow with the server's initial state in hand: getCode at the
\* wallet's address; a wallet with code is refused before anything is signed
DepositCreate(S, j, w) ==
  IF S.chain.code THEN SagaCatch(S, j, SmartAccountMsg) ELSE CreateOnChain(S, j, w)

\* nitroliteClient.resizeChannel: the wallet signs the state, the resize is
\* submitted
ResizeOnChain(S, j, kind, pc, amt, w) ==
  LET S1 == Log(S, SignEntry(j)) IN
  IF CanSubmit(S1, kind, amt, w[1]) /\ Accepts(S1.chain, kind, S1.jobs[j].version)
  THEN Submit(S1, j, kind, pc, amt)
  ELSE Throw(S1, j, TRUE, SubmitFailedMsg(w[1]), w)

\* the version of the state in the server's response: the server numbers the
\* states it signs, each one after the latest it has signed
StateVersion(S) == S.chain.signed + 1

\* a saga that builds the state of phase 2 from the response of phase 1
ReadChannel_KeepsState(S, j, pc) ==
  [S EXCEPT !.chain.signed = @ + 1,
            !.jobs[j].version = IF @ # 0 THEN @ ELSE StateVersion(S),
            !.jobs[j].seen = S.chain.submitted,
            !.jobs[j].pc = pc]

\* the response parsed, the saga takes the state (its version) from it and
\* reads the channel: await getChannelData(channelId)
ReadChannel(S, j, pc) ==
  [S EXCEPT !.chain.signed = @ + 1,
            !.jobs[j].version = StateVersion(S),
            !.jobs[j].seen = S.chain.submitted,
            !.jobs[j].pc = pc]

\* one turn of the allocate loop from its top
AllocateRequest(S, j, w) ==
  LET S1 == SagaRequest(S, j, "allocate", AllocateAmount(S.jobs[j]), TRUE, w) IN
  IF S1.jobs[j].pc = "allocate" THEN [S1 EXCEPT !.jobs[j].allocs = @ + 1] ELSE S1

\* checkCustodyBalance: the on-chain custody balance goes to the cache
checkCustodyBalance(S) == [S EXCEPT !.state.custodyBalance = S.chain.custody]

\* recoverCustodyFunds: setState custodyBalance '0', then checkCustodyBalance
CustodyCleared(S) == checkCustodyBalance([S EXCEPT !.state.custodyBalance = 0])

\* the end of both sagas: fetchBalances(), then fetchChannels();
\* recoverCustodyFunds first updates the cached custody balance
Refresh(S, j, w) ==
  LET S1 == IF S.jobs[j].kind = "recover" THEN CustodyCleared(S) ELSE S IN
  IF S1.signerRef = Null \/ S1.wsRef = Null THEN SagaReturn(S1, j)
  ELSE IF S1.rs[S1.wsRef] # "OPEN" THEN SagaReturn(S1, j)
  ELSE SagaRequest(S1, j, "balances", 0, FALSE, w)

\* the end of withdrawFromChannel: Promise.all([fetchBalances(),
\* fetchChannels()]); both requests are sent before either is answered
RefreshAll(S, j) ==
  IF S.signerRef = Null \/ S.wsRef = Null THEN SagaReturn(S, j)
  ELSE IF S.rs[S.wsRef] # "OPEN" THEN SagaReturn(S, j)
  ELSE Log(Log([S EXCEPT !.jobs[j].pc = "refresh_both"],
               RequestEntry(S, j, "balances", 0)),
           RequestEntry(S, j, "channels", 0))

\* allocServerError.includes('resize already ongoing') && attempt < 5
Retried_AnyError(err, attempt) == attempt < LastRetried
Retried(err, attempt) == Includes(err, ResizeOngoing) /\ attempt < LastRetried

\* the saga runs on after `await sendMessage(...)` settled with answer a
Answered(S, j, a, w) ==
  LET job == S.jobs[j]
      deposit == job.kind = "deposit"
  IN
  CASE job.pc = "create_channel" ->
         IF a.method = "rejected" THEN SagaCatch(S, j, a.err)
         ELSE IF deposit /\ a.method = "error"
         THEN IF Includes(a.err, AlreadyExists)
              THEN ChannelReady(S, j, w)
              ELSE SagaCatch(S, j, <<"Channel creation failed: ">> \o a.err)
         ELSE IF a.method # "create_channel" THEN SagaCatch(S, j, ParseFailedMsg)
         ELSE IF deposit THEN DepositCreate(S, j, w)
         ELSE CreateOnChain(S, j, w)
    [] job.pc = "get_config" ->
         IF a.method = "rejected" THEN SagaCatch(S, j, a.err)
         ELSE IF a.method # "get_config" THEN SagaCatch(S, j, ParseFailedMsg)
         ELSE SagaRequest([S EXCEPT !.jobs[j].inSeq = TRUE], j, "resize",
                          ResizeAmount(job), TRUE, w)
    [] job.pc = "resize" ->
         IF a.method = "rejected" THEN Throw(S, j, TRUE, a.err, w)
         ELSE IF a.method = "error"
         THEN Throw(S, j, TRUE,
                    (IF deposit THEN <<"Resize (custody->channel) failed: ">>
                                ELSE <<"Server rejected resize step 1: ">>) \o a.err, w)
         ELSE IF a.method # "resize_channel" THEN Throw(S, j, TRUE, ParseFailedMsg, w)
         ELSE ReadChannel(S, j, "resize_read")
    [] job.pc = "allocate" ->
         IF a.method = "rejected" THEN Throw(S, j, TRUE, a.err, w)
         ELSE IF a.method = "error"
         THEN IF Retried(a.err, job.attempt)
              THEN IF job.attempt + 1 < MaxAttempts
                   THEN Log([S EXCEPT !.jobs[j].attempt = @ + 1, !.jobs[j].pc = "wait"],
                            WaitEntry(j, (job.attempt + 1) * RetryDelay))
                   ELSE Throw(S, j, TRUE, ParseFailedMsg, w)
              ELSE Throw(S, j, TRUE,
                         (IF deposit THEN <<"Allocate (channel->ledger) failed: ">>
                                     ELSE <<"Server rejected allocate: ">>) \o a.err, w)
         ELSE IF a.method # "resize_channel" THEN Throw(S, j, TRUE, ParseFailedMsg, w)
         ELSE ReadChannel(S, j, "allocate_read")
    [] job.pc = "balances" ->
         IF S.signerRef = Null \/ S.wsRef = Null THEN SagaReturn(S, j)
         ELSE IF S.rs[S.wsRef] # "OPEN" THEN SagaReturn(S, j)
         ELSE SagaRequest(S, j, "channels", 0, FALSE, w)
    [] job.pc = "channels" -> SagaReturn(S, j)
    [] job.pc \in {"close_channel", "withdraw_resize"} ->
         IF a.method \in {"rejected", "error"} THEN SagaCatch(S, j, a.err)
         ELSE IF a.method # ExpectedMethod(job.pc) THEN SagaCatch(S, j, ParseFailedMsg)
         ELSE RefreshAll(S, j)
    [] job.pc = "refresh_both" -> [S EXCEPT !.jobs[j].pc = "refresh_one"]
    [] job.pc = "refresh_one" -> SagaReturn(S, j)

\* the saga runs on after the promise of a write of the nitrolite client
\* resolved, after waitForTransactionReceipt, after the delay of the loop
Resumed(S, j, w) ==
  LET job == S.jobs[j] IN
  CASE job.pc = "create_receipt" -> ChannelReady(S, j, w)
    [] job.pc = "approve" -> DepositCustody(S, j, w)
    [] job.pc = "deposit" -> SagaRequest(S, j, "get_config", 0, FALSE, w)
    [] job.pc = "resize_read" ->
         ResizeOnChain(S, j, "resize", "resize_tx", ResizeAmount(job), w)
    [] job.pc = "allocate_read" ->
         ResizeOnChain(S, j, "allocate", "allocate_tx", AllocateAmount(job), w)
    [] job.pc = "resize_tx" -> AllocateRequest(S, j, w)
    [] job.pc = "wait" -> AllocateRequest(S, j, w)
    [] job.pc = "allocate_tx" -> Refresh(S, j, w)
    [] job.pc = "fallback" -> Refresh(S, j, w)
    [] job.pc = "withdrawal" -> SagaReturn(CustodyCleared(S), j)

\* a guard that does not look at the state
SagaGuard_RefsOnly(S) == S.signerRef # Null /\ S.wsRef # Null

\* the sagas and sendPayment:
\* !signerRef.current || !wsRef.current || !state.isAuthenticated
SagaGuard(S) == S.signerRef # Null /\ S.wsRef # Null /\ S.state.isAuthenticated

\* throw new Error('Not connected or not authenticated'), before the try
\* block: nothing is written to the state
NotAuthenticatedMsg == <<"Not connected or not authenticated">>
Refused(S, j) == Log(S, ThrownEntry(j, "idle", NotAuthenticatedMsg))

NewJob(S, kind, amt) ==
  [IdleJob EXCEPT !.kind = kind, !.pc = "start", !.amt = amt,
                  !.ledger0 = S.chain.ledger,
                  !.clean = (S.chain.custody = 0 /\ S.chain.txs = <<>>)]

\* depositToYellow(tokenAddress, amount, chainId) up to its first request or
\* transaction; seen: getOpenChannels answered
DepositStart(S, j, amt, seen, w) ==
  LET S1 == [S EXCEPT !.state.error = NoError, !.jobs[j] = NewJob(S, "deposit", amt)] IN
  IF seen /\ S.chain.open THEN ChannelReady(S1, j, w)
  ELSE SagaRequest(S1, j, "create_channel", 0, FALSE, w)

\* withdrawFromChannel(channelId, fundsDestination, amount?) up to its
\* request; given: amount !== undefined
WithdrawStart(S, j, channelId, given, amount, w) ==
  LET S1 == [S EXCEPT !.state.error = NoError,
                      !.jobs[j] = [NewJob(S, "withdraw", IF given THEN amount ELSE 0)
                                     EXCEPT !.channelId = channelId]]
  IN  IF given THEN SagaRequest(S1, j, "withdraw_resize", amount, FALSE, w)
      ELSE SagaRequest(S1, j, "close_channel", 0, FALSE, w)

NothingToRecover_KeepsCache(S, j) == SagaReturn(S, j)

\* recoverCustodyFunds with custodyAmount <= 0: custodyBalance '0', return
NothingToRecover(S, j) == SagaReturn([S EXCEPT !.state.custodyBalance = 0], j)

RecoverStart_NoCodeTest(S, j, seen, w) ==
  LET custodyAmount == S.chain.custody
      S1 == [S EXCEPT !.state.error = NoError,
                      !.jobs[j] = NewJob(S, "recover", custodyAmount)]
  IN
  IF custodyAmount <= 0 THEN NothingToRecover(S1, j)
  ELSE IF seen /\ S.chain.open THEN ChannelReady(S1, j, w)
  ELSE SagaRequest(S1, j, "create_channel", 0, FALSE, w)

\* recoverCustodyFunds() up to its first request or transaction
RecoverStart(S, j, seen, w) ==
  LET custodyAmount == S.chain.custody
      S1 == [S EXCEPT !.state.error = NoError,
                      !.jobs[j] = NewJob(S, "recover", custodyAmount)]
  IN
  IF custodyAmount <= 0 THEN NothingToRecover(S1, j)
  ELSE IF S.chain.code
  THEN IF CanSubmit(S1, "withdrawal", custodyAmount, w[1])
       THEN Submit(S1, j, "withdrawal", "withdrawal", custodyAmount)
       ELSE SagaCatch(S1, j, SubmitFailedMsg(w[1]))
  ELSE IF seen /\ S.chain.open THEN ChannelReady(S1, j, w)
  ELSE SagaRequest(S1, j, "create_channel", 0, FALSE, w)

\* ------------------------------------------------------ tasks of a saga
Wallet == BOOLEAN \X BOOLEAN
IdleJobs == {j \in Jobs : jobs[j].kind = "none" /\ \A i \in Jobs : i < j => jobs[i].kind # "none"}

DepositTasks(j) ==
  IF j \notin IdleJobs THEN {}
  ELSE IF ~SagaGuard(Cur) THEN {Refused(Cur, j)}
  ELSE {DepositStart(Cur, j, amt, seen, w) : amt \in Amounts, seen \in BOOLEAN, w \in Wallet}
Deposit(j) == \E S \in DepositTasks(j) : Apply(S)

RecoverTasks(j) ==
  IF j \notin IdleJobs THEN {}
  ELSE IF ~SagaGuard(Cur) THEN {Refused(Cur, j)}
  ELSE {RecoverStart(Cur, j, seen, w) : seen \in BOOLEAN, w \in Wallet}
Recover(j) == \E S \in RecoverTasks(j) : Apply(S)

WithdrawTasks(j) ==
  IF j \notin IdleJobs THEN {}
  ELSE IF ~SagaGuard(Cur) THEN {Refused(Cur, j)}
  ELSE {WithdrawStart(Cur, j, ChannelId, given, amount, w) :
          given \in BOOLEAN, amount \in Amounts, w \in Wallet}
Withdraw(j) == \E S \in WithdrawTasks(j) : Apply(S)

\* the promise of sendMessage settles
AnswerTasks(j) ==
  IF jobs[j].pc \in RequestPcs
  THEN {Answered(Cur, j, a, w) : a \in Answers(jobs[j].pc), w \in Wallet}
  ELSE {}
AnswerArrives(j) == \E S \in AnswerTasks(j) : Apply(S)

\* The promise of a write of the nitrolite client resolves: the code does not
\* say whether with the transaction broadcast or mined.
LibraryTasks(j) ==
  IF jobs[j].pc \in LibraryPcs
  THEN {Resumed(Cur, j, w) : w \in Wallet}
  ELSE {}
LibraryReturns(j) == \E S \in LibraryTasks(j) : Apply(S)

\* waitForTransactionReceipt resolves: the creation is mined
ReceiptTasks(j) ==
  IF jobs[j].pc = "create_receipt" /\ Unmined(Cur, j) = {}
  THEN {Resumed(Cur, j, w) : w \in Wallet}
  ELSE {}
ReceiptArrives(j) == \E S \in ReceiptTasks(j) : Apply(S)

\* the delay of the allocate loop is over
DelayTasks(j) ==
  IF jobs[j].pc = "wait"
  THEN {Resumed(Cur, j, w) : w \in Wallet}
  ELSE {}
DelayOver(j) == \E S \in DelayTasks(j) : Apply(S)

\* a block is mined
MineTasks ==
  IF chain.txs # <<>> THEN {[Cur EXCEPT !.chain = MineHead(@)]} ELSE {}
Mine == \E S \in MineTasks : Apply(S)

\* an authenticated session; connect has read the custody balance once it
\* was authenticated (checkCustodyBalance)
AuthenticatedSession ==
  /\ pay = IdlePay
  /\ rs = [s \in Socks |-> IF s = 1 THEN "OPEN" ELSE "NONE"]
  /\ wsRef = 1
  /\ signerRef = 1
  /\ state = [initialState EXCEPT !.isConnected = TRUE, !.isAuthenticated = TRUE,
                                  !.custodyBalance = chain.custody]
  /\ isConnecting = FALSE
  /\ listeners = [s \in Socks |-> <<>>]
  /\ calls = [c \in Slots |-> Free]
  /\ procs = [p \in Procs |-> IF p = 1 THEN [pc |-> "done", reqSock |-> 1, verSock |-> 1]
                                       ELSE IdleProc]
  /\ jobs = [j \in Jobs |-> IdleJob]

Authenticated ==
  /\ AuthenticatedSession
  /\ ensure = IdleEnsure(<<>>)
  /\ effect = RunEffect(Null)

\* an authenticated session, and an account as earlier runs can leave it
SagaInit ==
  /\ chain \in {Account(MaxAmount, custody, 0, 0, open, allowance, code) :
                  custody \in 0..MaxAmount, open \in BOOLEAN,
                  allowance \in {0, MaxAmount}, code \in BOOLEAN}
  /\ Authenticated

Running == {j \in Jobs : InFlight(jobs[j])}

SagaStep(j) ==
  \/ AnswerArrives(j)
  \/ LibraryReturns(j)
  \/ ReceiptArrives(j)
  \/ DelayOver(j)

\* the sagas, called one at a time
SagaNext ==
  \/ \E j \in Jobs : Running = {} /\ Deposit(j)
  \/ \E j \in Jobs : Running = {} /\ Recover(j)
  \/ \E j \in Jobs : SagaStep(j)
  \/ Mine

SagaTasks ==
  {S \in UNION ({DepositTasks(j) \cup RecoverTasks(j) : j \in {i \in Jobs : Running = {}}}
                  \cup {AnswerTasks(j) \cup LibraryTasks(j) \cup ReceiptTasks(j)
                          \cup DelayTasks(j) : j \in Jobs})
           \cup MineTasks : S.ok}

SagaSpec == SagaInit /\ [][SagaNext]_vars

\* the sagas, called whenever the application calls them
RaceNext ==
  \/ \E j \in Jobs : Deposit(j)
  \/ \E j \in Jobs : Recover(j)
  \/ \E j \in Jobs : SagaStep(j)
  \/ Mine

RaceTasks ==
  {S \in UNION {DepositTasks(j) \cup RecoverTasks(j) \cup AnswerTasks(j)
                  \cup LibraryTasks(j) \cup ReceiptTasks(j) \cup DelayTasks(j) : j \in Jobs}
           \cup MineTasks : S.ok}

\* an authenticated session, and the account of an externally owned wallet
\* with its funds in custody (an incomplete deposit) and no channel yet
RaceInit ==
  /\ chain = Account(0, MaxAmount, 0, 0, FALSE, 0, FALSE)
  /\ Authenticated

RaceSpec == RaceInit /\ [][RaceNext]_vars

\* ------------------------------------------- Step 1 of depositToYellow
\* the orders in which getOpenChannels can return the open channels
RECURSIVE Orders(_)
Orders(set) ==
  IF set = {} THEN {<<>>}
  ELSE UNION {{<<t>> \o rest : rest \in Orders(set \ {t})} : t \in set}
OpenChannels == UNION {Orders(set) : set \in SUBSET Tokens}

\* depositToYellow(tokenAddress, ...) up to the end of Step 1 or to its
\* create_channel request; seen: getOpenChannels answered (what it throws is
\* caught and logged): channelId = openChannels[0]
EnsureChannel(E, tokenAddress, seen) ==
  LET E1 == [E EXCEPT !.tokenAddress = tokenAddress, !.channelId = NoChannel,
                      !.requested = FALSE,
                      !.had = \E i \in 1..Len(E.open) : E.open[i] = tokenAddress]
  IN  IF seen /\ Len(E.open) > 0
      THEN [E1 EXCEPT !.channelId = E.open[1], !.pc = "ready"]
      ELSE [E1 EXCEPT !.requested = TRUE, !.pc = "create_channel"]

\* what the server can answer to create_channel {chain_id, token}: the error
\* that names the channel it has for the token, the initial state of a new
\* one if it has none, another error
CreateAnswers(E) ==
  (IF E.had THEN {"exists"} ELSE {"create_channel"}) \cup {"error"}

\* Step 1 runs on with the answer: the id out of 'already exists: 0x...', or
\* the channel created on-chain (created: signed, submitted and mined) with
\* channelId = localChannelId
EnsureAnswered(E, a, created) ==
  CASE a = "exists" -> [E EXCEPT !.channelId = E.tokenAddress, !.pc = "ready"]
    [] a = "create_channel" ->
         IF created
         THEN [E EXCEPT !.channelId = E.tokenAddress, !.pc = "ready",
                        !.open = Append(@, E.tokenAddress)]
         ELSE [E EXCEPT !.pc = "failed"]
    [] a = "error" -> [E EXCEPT !.pc = "failed"]

EnsureCallTasks ==
  IF ensure.pc \in {"idle", "ready", "failed"} /\ SagaGuard(Cur)
  THEN {[Cur EXCEPT !.ensure = EnsureChannel(ensure, t, seen)] :
          t \in Tokens, seen \in BOOLEAN}
  ELSE {}
EnsureCall == \E S \in EnsureCallTasks : Apply(S)

EnsureAnswerTasks ==
  IF ensure.pc = "create_channel"
  THEN {[Cur EXCEPT !.ensure = EnsureAnswered(ensure, a, created)] :
          a \in CreateAnswers(ensure), created \in BOOLEAN}
  ELSE {}
EnsureAnswer == \E S \in EnsureAnswerTasks : Apply(S)

\* an authenticated session of an externally owned wallet with any channels
\* open on-chain
EnsureInit ==
  /\ chain = Account(MaxAmount, 0, 0, 0, FALSE, 0, FALSE)
  /\ AuthenticatedSession
  /\ ensure \in {IdleEnsure(open) : open \in OpenChannels}
  /\ effect = RunEffect(Null)

EnsureNext == EnsureCall \/ EnsureAnswer

EnsureSpec == EnsureInit /\ [][EnsureNext]_vars

\* ------------------------------------------------- the balance cache
Assets == {"usdc", "eth", "weth"}

\* lists of balances {asset, amount} as the server sends them: one entry per
\* asset, in any order
BalanceLists ==
  UNION {{[i \in 1..Len(o) |-> [asset |-> o[i], amount |-> amount[i]]] :
            amount \in [1..Len(o) -> 0..MaxAmount]} :
         o \in UNION {Orders(set) : set \in SUBSET Assets}}

\* how `await sendMessage(balanceMsg)` ends for fetchBalances: rejected; a
\* response that parses, with its ledgerBalances; a response that does not,
\* with what the fallback extracts from it ([] if nothing)
BalanceResponses ==
  {[how |-> "rejected", balances |-> <<>>]}
    \cup {[how |-> how, balances |-> b] : how \in {"parsed", "fallback"}, b \in BalanceLists}

\* fetchBalances after the send: setState(prev => ({ ...prev, balances })),
\* or the catch block, which leaves the cache alone
FetchedBalances(balances, r) ==
  IF r.how = "rejected" THEN balances ELSE r.balances

BalancesFetchedTasks ==
  {[Cur EXCEPT !.state.balances = FetchedBalances(@, r)] : r \in BalanceResponses}
BalancesFetched == \E S \in BalancesFetchedTasks : Apply(S)

\* handleMessage of the effect applied to a 'bu' frame
BalancesPushedTasks ==
  {[Cur EXCEPT !.state.balances = PushedBalances(@, updates)] : updates \in BalanceLists}
BalancesPushed == \E S \in BalancesPushedTasks : Apply(S)

\* the two functions that write the cache, applied to any cache
CacheInit ==
  /\ chain = Account(MaxAmount, 0, 0, 0, FALSE, 0, FALSE)
  /\ Authenticated

CacheNext == BalancesFetched \/ BalancesPushed

CacheSpec == CacheInit /\ [][CacheNext]_vars

\* ------------------------------------------- balance queries in flight
\* the ledgerBalances of a response: nothing, or the balance of one asset
LedgerBalances == {b \in BalanceLists : Len(b) <= 1}

\* The response to the get_ledger_balances call c arrives with ledgerBalances
\* b: handleMessage resolves the call, and the fetchBalances that awaited it
\* runs on: setState(prev => ({ ...prev, balances })).
AnswerBalances(S, c, b) ==
  LET call == S.calls[c] IN
  IF call.st # "pending" \/ call.kind # "balances" THEN S
  ELSE IF S.rs[call.sock] # "OPEN" THEN S
  ELSE LET f == Frame(TRUE, call.rid, "result", FALSE, <<>>)
           T == Dispatch(S, S.listeners[call.sock], f, NoIds)
           resolved == \E i \in (Len(S.last) + 1)..Len(T.last) :
                         /\ T.last[i].type = "settled"
                         /\ T.last[i].slot = c
                         /\ T.last[i].st = "resolved"
       IN  IF resolved
           THEN [T EXCEPT !.state.balances =
                            FetchedBalances(@, [how |-> "parsed", balances |-> b])]
           ELSE T

BalancesAnsweredTasks ==
  {AnswerBalances(Cur, c, b) :
     c \in {d \in Slots : /\ calls[d].st = "pending"
                          /\ calls[d].kind = "balances"
                          /\ rs[calls[d].sock] = "OPEN"},
     b \in LedgerBalances}

BalancesAnswered == \E S \in BalancesAnsweredTasks : Apply(S)

\* an authenticated session whose balances are queried by the heartbeat and
\* by the components: the queries are answered in any order, time out, and
\* the server may drop the connection
QueryInit ==
  /\ chain = Account(MaxAmount, 0, 0, 0, FALSE, 0, FALSE)
  /\ Authenticated

QueryNext ==
  \/ FetchBalances
  \/ BalancesAnswered
  \/ \E c \in Slots : Timeout(c)
  \/ \E s \in Socks : SocketClose(s)

QuerySpec == QueryInit /\ [][QueryNext]_vars

\* withdrawFromChannel, called one at a time from an authenticated session
\* for the open channel of the wallet
WithdrawInit ==
  /\ chain \in {Account(wallet, 0, channel, ledger, TRUE, 0, FALSE) :
                  wallet \in 0..MaxAmount, channel \in 0..MaxAmount, ledger \in 0..MaxAmount}
  /\ Authenticated

WithdrawNext ==
  \/ \E j \in Jobs : Running = {} /\ Withdraw(j)
  \/ \E j \in Jobs : AnswerArrives(j)

WithdrawAll ==
  {S \in UNION ({WithdrawTasks(j) : j \in {i \in Jobs : Running = {}}}
                  \cup {AnswerTasks(j) : j \in Jobs}) : S.ok}

WithdrawSpec == WithdrawInit /\ [][WithdrawNext]_vars

\* ------------------------------------------------------- sendPayment
\* sendPayment invocations in flight
MaxSends == 2

\* error strings of the server for a transfer (<<>>: none given)
PaymentErrors == {<<>>, <<"insufficient", " funds">>, <<"operation ", "denied">>}

\* what `await sendMessage(transferMsg)` gives sendPayment
TransferAnswers ==
  {Answer("transfer", NoError), Answer("other", NoError),
   Answer("rejected", RequestTimeoutMsg)}
    \cup {Answer("error", e) : e \in PaymentErrors}

\* the catch block of sendPayment
PaymentUserMsg(technicalMessage) ==
  IF Includes(technicalMessage, "insufficient") \/ Includes(technicalMessage, "balance")
  THEN <<"Insufficient balance for this payment.">>
  ELSE IF Includes(technicalMessage, "rejected") \/ Includes(technicalMessage, "denied")
  THEN <<"Transaction was declined.">>
  ELSE IF Includes(technicalMessage, "timeout")
  THEN <<"Request timed out. Please try again.">>
  ELSE <<"Payment failed. Please try again.">>

\* log entries: sendPayment throws; a request of sendPayment or of the
\* fetchBalances it calls is sent
PaymentThrown(msg) == [type |-> "thrown", job |-> Null, from |-> "payment", msg |-> msg]
PaymentRequest(what) == [type |-> "request", job |-> Null, what |-> what]

RemoveAt(seq, i) == SubSeq(seq, 1, i - 1) \o SubSeq(seq, i + 1, Len(seq))

\* sendPayment(recipientAddress, amount, asset) up to its first await
sendPayment(S) ==
  IF ~SagaGuard(S) THEN Log(S, PaymentThrown(NotAuthenticatedMsg))
  ELSE LET S1 == [S EXCEPT !.state.error = NoError] IN
       IF S1.rs[S1.wsRef] # "OPEN"
       THEN Log([S1 EXCEPT !.state.error = PaymentUserMsg(NotConnectedMsg)],
                PaymentThrown(PaymentUserMsg(NotConnectedMsg)))
       ELSE IF Len(S1.pay.sends) >= MaxSends THEN [S1 EXCEPT !.ok = FALSE]
       ELSE Log([S1 EXCEPT !.pay.sends = Append(@, "transfer")],
                PaymentRequest("transfer"))

\* the last thing the task did was to throw out of sendPayment
Threw(S) ==
  /\ S.last # <<>>
  /\ S.last[Len(S.last)].type = "thrown"
  /\ S.last[Len(S.last)].from = "payment"

\* doTransfer, catch: setWalletPayError(msg); setWalletPayStep('idle')
TransferFailed(S) == [S EXCEPT !.pay.error = TRUE, !.pay.step = "idle"]

\* doTransfer up to its await
doTransfer(S) ==
  LET T == sendPayment(S) IN
  IF Threw(T) THEN TransferFailed(T) ELSE T

\* Effect: when deposit completes -> send payment to recipient
\*   if (walletPayStep !== 'transfer') return
\*   if (!resolvedRecipient || !deliveryAmount) return
TransferEffect(S) ==
  IF S.pay.step # "transfer" THEN S
  ELSE IF ~S.pay.quote THEN S
  ELSE doTransfer(S)

\* sendPayment's catch block, and doTransfer's
PaymentCatch(S, i, technicalMessage) ==
  TransferFailed(Log([S EXCEPT !.state.error = PaymentUserMsg(technicalMessage),
                               !.pay.sends = RemoveAt(@, i)],
                     PaymentThrown(PaymentUserMsg(technicalMessage))))

\* sendPayment returns; doTransfer: setWalletPayStep('done'), fetchBalances()
PaymentReturned(S, i) ==
  LET S1 == [S EXCEPT !.pay.sends = RemoveAt(@, i), !.pay.step = "done"] IN
  IF S1.signerRef = Null \/ S1.wsRef = Null THEN S1
  ELSE IF S1.rs[S1.wsRef] # "OPEN" THEN S1
  ELSE Log(S1, PaymentRequest("balances"))

\* sendPayment invocation i runs on after `await sendMessage(transferMsg)`
\* settled with answer a, or after `await fetchBalances()`
PaymentAnswered(S, i, a) ==
  IF S.pay.sends[i] = "transfer"
  THEN IF a.method = "rejected" THEN PaymentCatch(S, i, a.err)
       ELSE IF a.method = "error"
       THEN PaymentCatch(S, i, IF a.err = <<>> THEN <<"Transfer failed">> ELSE a.err)
       ELSE IF a.method # "transfer" THEN PaymentCatch(S, i, ParseFailedMsg)
       ELSE IF S.signerRef = Null \/ S.wsRef = Null THEN PaymentReturned(S, i)
       ELSE IF S.rs[S.wsRef] # "OPEN" THEN PaymentReturned(S, i)
       ELSE Log([S EXCEPT !.pay.sends[i] = "refresh"], PaymentRequest("balances"))
  ELSE PaymentReturned(S, i)

\* ------------------------------------- the operations of a dead session
\* sendPayment called by a component
SendPaymentTasks == {sendPayment(Cur)}
SendPayment == \E S \in SendPaymentTasks : Apply(S)

\* the stores the four operations end in when they are called
CallTasks ==
  SendPaymentTasks
    \cup UNION {DepositTasks(j) \cup RecoverTasks(j) \cup WithdrawTasks(j) : j \in Jobs}

\* no signer, no socket, or isAuthenticated false
Dead == signerRef = Null \/ wsRef = Null \/ ~state.isAuthenticated

\* the session, and the operations called while it is not authenticated
GuardNext ==
  \/ Next
  \/ Dead /\ SendPayment
  \/ \E j \in Jobs : Dead /\ Deposit(j)
  \/ \E j \in Jobs : Dead /\ Recover(j)
  \/ \E j \in Jobs : Dead /\ Withdraw(j)

GuardSpec == Init /\ [][GuardNext]_vars

\* ------------------------------------- PaymentForm, paying from the wallet
\* doDeposit, catch: setWalletPayError(msg); setWalletPayStep('idle')
DepositFailed(S) == [S EXCEPT !.pay.error = TRUE, !.pay.step = "idle"]

\* doDeposit runs on when the depositToYellow it awaits has returned
\* (setWalletPayStep('transfer')) or thrown
DepositEnded(S, j) ==
  IF S.pay.job # j \/ S.pay.step # "deposit" THEN S
  ELSE IF S.jobs[j].pc = "done" THEN [S EXCEPT !.pay.step = "transfer"]
  ELSE IF S.jobs[j].pc = "failed" THEN DepositFailed(S)
  ELSE S

\* Effect: when LI.FI swap completes -> deposit to Yellow Network
\*   if (swapStatus?.status !== 'DONE' || walletPayStep !== 'swap') return
\*   if (!quote || !walletAddress) return
DepositDue(S) == S.pay.swap = "DONE" /\ S.pay.step = "swap" /\ S.pay.quote

\* doDeposit up to the first await of depositToYellow
doDeposit(S, j, amt, seen, w) ==
  LET S1 == [S EXCEPT !.pay.step = "deposit", !.pay.job = j] IN
  IF ~SagaGuard(S1) THEN DepositFailed(Refused(S1, j))
  ELSE DepositEnded(DepositStart(S1, j, amt, seen, w), j)

\* the first depositToYellow invocation the model has left
NextJob(S) ==
  {j \in Jobs : S.jobs[j].kind = "none" /\ \A i \in Jobs : i < j => S.jobs[i].kind # "none"}

\* what the transfer effect depends on: walletPayStep, deliveryAmount (of
\* the quote), sendPayment (a new function when state.isAuthenticated changes)
TransferDeps(S) == <<S.pay.step, S.pay.quote, S.state.isAuthenticated>>

\* the component renders after a task and its effects run: the deposit
\* effect where it is due, the transfer effect if a dependency has changed
Effects(S) ==
  LET D == IF ~DepositDue(S) THEN {S}
           ELSE IF NextJob(S) = {} THEN {[S EXCEPT !.ok = FALSE]}
           ELSE {doDeposit(S, j, amt, seen, w) :
                   j \in NextJob(S), amt \in Amounts, seen \in BOOLEAN, w \in Wallet}
  IN  {IF TransferDeps(T) # TransferDeps(Cur) THEN TransferEffect(T) ELSE T : T \in D}

\* handleSendFromWallet, the Send button: enabled with a quote, hidden once
\* there is a swap transaction
SendFromWalletTasks ==
  IF pay.step = "idle" /\ pay.swap = "NONE" /\ pay.quote
  THEN {[Cur EXCEPT !.pay.error = FALSE, !.pay.step = "swap"]}
  ELSE {}
SendFromWallet == \E S \in SendFromWalletTasks : Apply(S)

\* walletClient.sendTransaction settles: setSwapTxHash(hash), or the catch
\* block
SwapSubmittedTasks ==
  IF pay.step = "swap" /\ pay.swap = "NONE"
  THEN {[Cur EXCEPT !.pay.swap = "PENDING"],
        [Cur EXCEPT !.pay.error = TRUE, !.pay.step = "idle"]}
  ELSE {}
SwapSubmitted == \E S \in SwapSubmittedTasks : Apply(S)

\* useTransactionStatus polls the swap to a terminal status
SwapPolledTasks ==
  IF pay.swap = "PENDING"
  THEN UNION {Effects([Cur EXCEPT !.pay.swap = status]) : status \in {"DONE", "FAILED"}}
  ELSE {}
SwapPolled == \E S \in SwapPolledTasks : Apply(S)

\* the quote is fetched again (fetchQuote: setQuote(null), later
\* setQuote(result)) because an input of the quote effect has changed
QuoteTasks == Effects([Cur EXCEPT !.pay.quote = ~pay.quote])
QuoteChanges == \E S \in QuoteTasks : Apply(S)

\* handleWalletReset, the button 'Send Another Payment'
WalletResetTasks ==
  IF pay.swap # "NONE" /\ (pay.step = "done" \/ pay.swap = "FAILED" \/ pay.error)
  THEN Effects([Cur EXCEPT !.pay.swap = "NONE", !.pay.error = FALSE,
                           !.pay.step = "idle", !.pay.quote = FALSE])
  ELSE {}
WalletReset == \E S \in WalletResetTasks : Apply(S)

\* a step of the depositToYellow invocation, and doDeposit after it
PaySagaTasks(j) ==
  UNION {Effects(DepositEnded(S, j)) :
           S \in AnswerTasks(j) \cup LibraryTasks(j) \cup ReceiptTasks(j) \cup DelayTasks(j)}
PaySaga(j) == \E S \in PaySagaTasks(j) : Apply(S)

\* a request of a sendPayment invocation is answered
PaymentAnswerTasks ==
  UNION {Effects(PaymentAnswered(Cur, i, a)) :
           i \in 1..Len(pay.sends), a \in TransferAnswers}
PaymentAnswer == \E S \in PaymentAnswerTasks : Apply(S)

\* the socket closes under the payment
PayCloseTasks(s) == UNION {Effects(S) : S \in SocketCloseTasks(s)}
PayClose(s) == \E S \in PayCloseTasks(s) : Apply(S)

PayTasks ==
  {S \in SendFromWalletTasks \cup SwapSubmittedTasks \cup SwapPolledTasks
           \cup QuoteTasks \cup WalletResetTasks \cup PaymentAnswerTasks
           \cup UNION {PaySagaTasks(j) : j \in Jobs}
           \cup UNION {PayCloseTasks(s) : s \in Socks}
           \cup MineTasks : S.ok}

\* an authenticated session, the wallet holding the tokens to pay with
PayInit ==
  /\ chain \in {Account(MaxAmount, 0, 0, 0, open, 0, FALSE) : open \in BOOLEAN}
  /\ Authenticated

PayNext ==
  \/ SendFromWallet
  \/ SwapSubmitted
  \/ SwapPolled
  \/ QuoteChanges
  \/ WalletReset
  \/ \E j \in Jobs : PaySaga(j)
  \/ PaymentAnswer
  \/ \E s \in Socks : PayClose(s)
  \/ Mine

PaySpec == PayInit /\ [][PayNext]_vars

\* a timer of setTimeout that is due fires
LiveSpec == Spec /\ WF_vars(\E c \in Slots : Timeout(c))

TypeOK ==
  /\ rs \in [Socks -> {"NONE", "CONNECTING", "OPEN", "CLOSING", "CLOSED"}]
  /\ wsRef \in Socks \cup {Null}
  /\ signerRef \in Procs \cup {Null}
  /\ isConnecting \in BOOLEAN
  /\ \A s \in Socks : Range(listeners[s]) \subseteq {c \in Slots : calls[c].st # "free"}

\* --------------------------------------------------------------- claims
Pending(c) == calls[c].st = "pending"
Entries(S) == 1..Len(S.last)

\* task S resolved the call of slot c with a frame whose res[0] is r
ResolvedWith(S, c, r) ==
  \E i \in Entries(S) :
    /\ S.last[i].type = "settled"
    /\ S.last[i].slot = c
    /\ S.last[i].st = "resolved"
    /\ S.last[i].got = r

IsInfix(sub, msg) ==
  \E i \in 0..(Len(msg) - Len(sub)) : SubSeq(msg, i + 1, i + Len(sub)) = sub

\* C1: whatever frames arrive, a sendMessage call with request id r resolves
\* only with a frame whose res[0] is r; otherwise it rejects.
C1_ResolvesOnlyWithOwnId ==
  \A S \in Tasks : \A i \in Entries(S) :
    (S.last[i].type = "settled" /\ S.last[i].st = "resolved")
      => S.last[i].got = S.last[i].rid

C1_Witness ==
  \E s \in Socks : \E S \in DeliverTasks(s) : \E i \in Entries(S) :
    /\ S.ok
    /\ S.last[i].type = "settled"
    /\ S.last[i].st = "resolved"
    /\ \E c \in Slots : Pending(c) /\ calls[c].sock = s /\ calls[c].rid # S.last[i].rid

\* frame f answers no pending request
MatchesNoPending(f) == \A c \in Slots : Pending(c) => calls[c].rid # f.id

\* C2: a frame pushed by the server that matches no pending request leaves
\* every pending call pending, with its listener registered.
C2_PushResolvesNoWaiter ==
  \A s \in Socks : \A f \in Frames :
    (rs[s] = "OPEN" /\ f.wf /\ MatchesNoPending(f)) =>
      \A ids \in IdPairs(f) :
        LET S == Dispatch(Cur, listeners[s], f, ids) IN
        /\ S.calls = calls
        /\ S.listeners = listeners
        /\ S.last = <<>>

C2_Witness ==
  \E s \in Socks : \E c \in Slots : \E S \in DeliverTasks(s) :
    /\ Pending(c) /\ calls[c].sock = s
    /\ \E f \in Frames : f.method = "bu" /\ MatchesNoPending(f)
                         /\ S = Dispatch(Cur, listeners[s], f, NoIds)
    /\ S.calls[c] = calls[c]

\* calls c1 and c2 are outstanding on open socket s, under different ids
Outstanding(s, c1, c2) ==
  /\ rs[s] = "OPEN"
  /\ c1 # c2
  /\ Pending(c1) /\ Pending(c2)
  /\ calls[c1].sock = s /\ calls[c2].sock = s
  /\ calls[c1].rid # calls[c2].rid

Before(s, c1, c2) ==
  \E i, j \in 1..Len(listeners[s]) :
    i < j /\ listeners[s][i] = c1 /\ listeners[s][j] = c2

\* C3: with calls of different ids outstanding on a socket, the response to
\* any of them, the last sent included, resolves that call and leaves the
\* others waiting for theirs.
C3_MatchingByIdNotFifo ==
  \A s \in Socks : \A c1, c2 \in Slots :
    Outstanding(s, c1, c2) =>
      \A f \in Frames : (f.wf /\ f.id = calls[c2].rid) =>
        \A ids \in IdPairs(f) :
          LET S == Dispatch(Cur, listeners[s], f, ids) IN
          /\ ResolvedWith(S, c2, calls[c2].rid)
          /\ S.calls[c1] = calls[c1]
          /\ \A i \in Entries(S) :
               S.last[i].type = "settled" => S.last[i].slot # c1

C3_Witness ==
  \E s \in Socks : \E c1, c2 \in Slots : \E S \in DeliverTasks(s) :
    /\ Outstanding(s, c1, c2) /\ Before(s, c1, c2)
    /\ S.ok
    /\ ResolvedWith(S, c2, calls[c2].rid)
    /\ S.calls[c1] = calls[c1]

\* C4: with two calls outstanding on a socket, the timeout of one leaves the
\* other pending with its listener registered, and the other still resolves
\* with the frame that carries its id; the timeout of a query leaves the
\* socket open.
C4_TimeoutLeavesOtherCall ==
  \A s \in Socks : \A c1, c2 \in Slots :
    (Outstanding(s, c1, c2) /\ c2 \in Range(listeners[s])) =>
      LET S == TimeoutCall(Cur, c1) IN
      /\ S.calls[c2] = calls[c2]
      /\ c2 \in Range(S.listeners[s])
      /\ \A i \in Entries(S) :
           S.last[i].type = "settled" => S.last[i].slot = c1
      /\ calls[c1].kind \in FetchKinds => S.rs = rs
      /\ S.rs[s] = "OPEN" =>
           \A f \in Frames : (f.wf /\ f.id = calls[c2].rid) =>
             \A ids \in IdPairs(f) :
               (S.ok /\ Dispatch(S, S.listeners[s], f, ids).ok) =>
                 ResolvedWith(Dispatch([S EXCEPT !.last = <<>>], S.listeners[s], f, ids),
                              c2, calls[c2].rid)

C4_Witness ==
  \E s \in Socks : \E c1, c2 \in Slots : \E S \in TimeoutTasks(c1) :
    /\ Outstanding(s, c1, c2)
    /\ calls[c1].kind \in FetchKinds
    /\ S.ok /\ S.rs[s] = "OPEN"
    /\ S.calls[c2] = calls[c2]
    /\ \E T \in {Dispatch([S EXCEPT !.last = <<>>], S.listeners[s], f, NoIds) :
                   f \in {g \in Frames : g.wf /\ ~g.ok /\ g.id = calls[c2].rid}} :
         T.ok /\ ResolvedWith(T, c2, calls[c2].rid)

\* C5: once a socket is closing or closed, no call is pending on it and none
\* of their listeners is registered on it.
C5_CloseRejectsPendingCalls ==
  /\ \A c \in Slots : Pending(c) => rs[calls[c].sock] = "OPEN"
  /\ \A s \in Socks : rs[s] \in {"CLOSING", "CLOSED"} => listeners[s] = <<>>

\* C6: the listener of a settled call is registered on no socket.
C6_ListenerGoneOnCompletion ==
  \A c \in Slots :
    calls[c].st \in {"resolved", "rejected"} =>
      \A s \in Socks : c \notin Range(listeners[s])

\* C7: a call that was sent settles: it resolves with the frame that carries
\* its id, or its timer rejects it with the timeout error.
C7_SentCallSettles ==
  /\ (\E c \in Slots : Pending(c)) ~> (\A c \in Slots : ~Pending(c))
  /\ [](\A S \in Tasks : \A i \in Entries(S) :
          (S.last[i].type = "settled" /\ S.last[i].sock # Null) =>
            \/ S.last[i].st = "resolved" /\ S.last[i].got = S.last[i].rid
            \/ S.last[i].st = "rejected" /\ S.last[i].why = "timeout")

C7_Witness ==
  /\ state.error = TimeoutUserMsg
  /\ \A c \in Slots : ~Pending(c)

\* C8: no two pending calls wait on the same request id.
C8_OnePendingCallPerId ==
  \A c1, c2 \in Slots :
    (Pending(c1) /\ Pending(c2) /\ calls[c1].rid = calls[c2].rid) => c1 = c2

\* C9: a connect() becomes authenticated and installs its signer only with
\* its socket open and current, its auth_request sent and answered on that
\* socket and then its auth_verify answered with success on that socket; a
\* connect() that fails leaves its socket closing or closed and the session
\* not authenticated.
C9_SessionStateMachine ==
  \A S \in Tasks : \A i \in Entries(S) :
    /\ S.last[i].type = "authenticated" =>
         LET p == S.last[i].owner IN
         /\ S.last[i].ws = p
         /\ S.last[i].reqSock = p
         /\ rs[p] = "OPEN"
         /\ \E j \in 1..(i - 1) :
              /\ S.last[j].type = "settled"
              /\ S.last[j].kind = "auth_verify"
              /\ S.last[j].owner = p
              /\ S.last[j].sock = p
              /\ S.last[j].st = "resolved"
    /\ S.last[i].type = "failed" =>
         /\ S.rs[S.last[i].owner] \in {"CLOSING", "CLOSED"}
         /\ ~S.state.isAuthenticated

\* C10: a handshake that fails on an error frame of the server shows the
\* server's error string as it came, one that fails on the socket shows the
\* connectivity message, and neither shows the other's.
C10_ErrorCategories ==
  \A S \in Tasks : \A i \in Entries(S) :
    S.last[i].type = "failed" =>
      /\ (S.last[i].cause = "server_error" /\ S.last[i].srvErr # <<>>) =>
            /\ IsInfix(S.last[i].srvErr, S.last[i].userMessage)
            /\ S.last[i].userMessage \notin {NetworkUserMsg, GenericUserMsg}
      /\ S.last[i].cause = "transport" => S.last[i].userMessage = NetworkUserMsg


\* C11: a signed request is signed with the session key that was authorised
\* on the socket it is sent on: the key of the connect() invocation whose
\* auth_verify went out on that socket.
C11_SignerOfOwnConnection ==
  \A c \in Slots :
    (Pending(c) /\ calls[c].signer # Null) =>
      calls[c].sock = procs[calls[c].signer].verSock

\* C12: at most one socket is open or being opened at any time.
C12_SingleSocket ==
  \A s1, s2 \in Socks :
    (rs[s1] \in {"CONNECTING", "OPEN"} /\ rs[s2] \in {"CONNECTING", "OPEN"}) => s1 = s2

\* no socket is open or being opened
Quiet == \A s \in Socks : rs[s] \notin {"CONNECTING", "OPEN"}

HandshakeKinds == {"auth_request", "auth_verify"}

\* the handshake messages sent and not yet answered
HandshakeCalls(cs) ==
  Cardinality({c \in Slots : cs[c].st = "pending" /\ cs[c].kind \in HandshakeKinds})

\* C13: a socket is created only by a call of connect(), and while no socket
\* is open or being opened (after a close by the server or by disconnect())
\* no handshake message is sent.
C13_NoImplicitReconnect ==
  [][/\ \A s \in Socks : (rs[s] = "NONE" /\ rs'[s] # "NONE") => Connect
     /\ Quiet => HandshakeCalls(calls') <= HandshakeCalls(calls)]_vars

C13_Witness ==
  /\ Quiet
  /\ \E s \in Socks : rs[s] = "CLOSED" /\ procs[s].pc \in {"done", "failed"}
  /\ \E s \in Socks : rs[s] = "NONE"

\* the step of depositToYellow a request, a transaction or a position belongs
\* to: 1 ensure-channel, 2 custody deposit, 3 resize phase 1, 4 resize phase
\* 2, 5 the refresh of the balances
Phase(what) ==
  CASE what \in {"idle", "start"} -> 0
    [] what \in {"create_channel", "create", "create_receipt"} -> 1
    [] what \in {"approve", "deposit"} -> 2
    [] what \in {"get_config", "resize", "resize_read", "resize_tx"} -> 3
    [] what \in {"allocate", "wait", "allocate_read", "allocate_tx"} -> 4
    [] what \in {"balances", "channels"} -> 5

Issued(S, j) ==
  {i \in Entries(S) : S.last[i].type \in {"request", "tx"} /\ S.last[i].job = j}

\* C14: depositToYellow issues its requests and transactions in the order
\* ensure-channel, custody deposit, resize phase 1, resize phase 2, and it
\* issues none while a transaction it submitted earlier is not yet mined.
C14_DepositStepsInOrderAndConfirmed ==
  \A S \in SagaTasks : \A j \in Jobs : \A i \in Issued(S, j) :
    S.jobs[j].kind = "deposit" =>
      /\ Phase(jobs[j].pc) <= Phase(S.last[i].what)
      /\ ~S.last[i].unmined

\* job j is the last saga called
Latest(j) == \A i \in Jobs : i > j => jobs[i].kind = "none"
Finished(j, kind) == jobs[j].kind = kind /\ jobs[j].pc = "done" /\ Unmined(Cur, j) = {}

\* C15: after a depositToYellow of amount A that started with nothing in
\* custody and returned, its transactions mined, the ledger balance is the
\* one before plus exactly A and the custody balance is 0 again.
C15_DepositCreditsLedgerExactly ==
  \A j \in Jobs :
    (Finished(j, "deposit") /\ Latest(j) /\ jobs[j].clean) =>
      /\ chain.ledger = jobs[j].ledger0 + jobs[j].amt
      /\ chain.custody = 0

C15_Witness ==
  \E j \in Jobs :
    /\ Finished(j, "deposit") /\ Latest(j) /\ jobs[j].clean
    /\ jobs[j].amt = MaxAmount
    /\ chain.ledger = jobs[j].ledger0 + MaxAmount

BusyAnswer == Answer("error", <<"operation denied: ", ResizeOngoing>>)
AcceptedAnswer == Answer("resize_channel", NoError)
AllocateRequests(S, j) ==
  {i \in Issued(S, j) : S.last[i].type = "request" /\ S.last[i].what = "allocate"}
EntriesOf(S, j, type) == {i \in Entries(S) : S.last[i].type = type /\ S.last[i].job = j}

Permanent == {e \in SagaErrors : ~Includes(e, "resize already ongoing")}

\* C17: in depositToYellow any server error in answer to the phase 1 resize
\* request, and any server error but 'resize already ongoing' in answer to a
\* phase 2 request, ends the saga in the same task: no wait, no request, no
\* transaction; and a saga that has failed issues nothing further.
C17_DepositAbortsOnServerError ==
  \A j \in Jobs :
    jobs[j].kind = "deposit" =>
      /\ \A w \in Wallet :
           \A e \in (IF jobs[j].pc = "resize" THEN SagaErrors
                      ELSE IF jobs[j].pc = "allocate" THEN Permanent ELSE {}) :
             LET S == Answered(Cur, j, Answer("error", e), w) IN
             /\ S.jobs[j].pc = "failed"
             /\ Issued(S, j) = {}
             /\ EntriesOf(S, j, "wait") = {}
             /\ S.chain = chain
      /\ jobs[j].pc = "failed" =>
           \A S \in SagaTasks : Issued(S, j) = {} /\ S.jobs[j] = jobs[j]

C17_Witness ==
  \E j \in Jobs :
    /\ jobs[j].kind = "deposit" /\ jobs[j].pc = "failed"
    /\ state.error = <<"Allocate (channel->ledger) failed: ", "insufficient balance">>

Ended(j, kind) ==
  /\ jobs[j].kind = kind
  /\ jobs[j].pc \in {"done", "failed"}
  /\ Unmined(Cur, j) = {}
OnlyJob(j) == \A i \in Jobs : i # j => jobs[i].kind = "none"

\* C18: once recoverCustodyFunds, run for an externally owned wallet, has
\* entered its resize sequence and has finished (the wallet having refused
\* nothing), its transactions mined, nothing is left in custody or in the
\* channel: the amount is in the ledger, or the fallback has returned it to
\* the wallet.
C18_RecoveryLeavesNothingBehind ==
  \A j \in Jobs :
    (Ended(j, "recover") /\ OnlyJob(j) /\ jobs[j].inSeq /\ state.error # WalletFailedMsg) =>
      /\ chain.custody = 0
      /\ chain.channel = 0

\* C19: recoverCustodyFunds run for a wallet with on-chain code and with funds
\* in custody submits one transaction, the withdrawal of the whole custody
\* balance, and returns when it resolves; it sends no request (no channel
\* creation, no resize) and asks for no signature of a channel state.
C19_SmartAccountWithdrawsDirectly ==
  \A j \in Jobs :
    (chain.code /\ chain.custody > 0) =>
      /\ \A S \in RecoverTasks(j) :
           /\ EntriesOf(S, j, "request") = {} /\ EntriesOf(S, j, "sign") = {}
           /\ \A i \in EntriesOf(S, j, "tx") :
                S.last[i].what = "withdrawal" /\ S.last[i].amt = chain.custody
           /\ EntriesOf(S, j, "returned") = {}
           /\ S.jobs[j].pc \in {"withdrawal", "failed"}
      /\ jobs[j].kind = "recover" =>
           /\ jobs[j].pc \in {"withdrawal", "done", "failed"}
           /\ \A S \in SagaTasks :
                /\ Issued(S, j) = {} /\ EntriesOf(S, j, "sign") = {}
                /\ \A i \in EntriesOf(S, j, "returned") : S.last[i].from = "withdrawal"

C19_Witness ==
  \E j \in Jobs :
    /\ chain.code /\ OnlyJob(j)
    /\ Ended(j, "recover") /\ jobs[j].pc = "done" /\ jobs[j].amt = MaxAmount
    /\ chain.custody = 0 /\ chain.wallet = 2 * MaxAmount

ResizePcs == {"resize", "resize_read", "resize_tx", "wait", "allocate", "allocate_read",
              "allocate_tx"}

\* C20: no two sagas are in their resize sequences (from the phase 1 request
\* to the phase 2 on-chain resize) at the same time.
C20_OneResizeSequenceAtATime ==
  \A i, j \in Jobs :
    (jobs[i].pc \in ResizePcs /\ jobs[j].pc \in ResizePcs) => i = j

\* C23: when depositToYellow has asked the server for a new channel and the
\* wallet's address has code, the server's initial state makes it fail with
\* the smart-account message in the same task: the wallet is asked for no
\* signature and no transaction is submitted, by that task or by the saga
\* before or after it.
C23_SmartAccountDepositFailsFast ==
  \A j \in Jobs :
    (jobs[j].kind = "deposit" /\ chain.code) =>
      /\ jobs[j].pc = "create_channel" =>
           /\ Unmined(Cur, j) = {}
           /\ \A w \in Wallet :
                LET S == Answered(Cur, j, Answer("create_channel", NoError), w) IN
                /\ S.jobs[j].pc = "failed"
                /\ S.state.error = SmartAccountMsg
                /\ EntriesOf(S, j, "sign") = {} /\ EntriesOf(S, j, "tx") = {}
                /\ S.chain = chain
      /\ (jobs[j].pc = "failed" /\ state.error = SmartAccountMsg) =>
           \A S \in SagaTasks : Issued(S, j) = {} /\ EntriesOf(S, j, "sign") = {}

C23_Witness ==
  \E j \in Jobs :
    /\ jobs[j].kind = "deposit" /\ jobs[j].pc = "failed" /\ chain.code
    /\ state.error = SmartAccountMsg
    /\ chain.txs = <<>>

\* C26: the phase 1 request of a saga carries resize_amount = the saga's
\* amount (the deposit amount; for recoverCustodyFunds the custody balance it
\* read) and allocate_amount = 0; every phase 2 request carries resize_amount
\* = 0 and allocate_amount = the same amount; both name the channel the saga
\* settled on, and neither the amount nor the channel changes on the way.
C26_ResizeRequestsComplementary ==
  /\ \A j \in Jobs :
       /\ \A S \in RecoverTasks(j) : S.jobs[j].amt = chain.custody
       /\ \A S \in DepositTasks(j) : S.jobs[j].amt \in Amounts
  /\ \A S \in SagaTasks : \A j \in Jobs :
       /\ jobs[j].kind # "none" => S.jobs[j].amt = jobs[j].amt
       /\ jobs[j].channelId # "undefined" => S.jobs[j].channelId = jobs[j].channelId
       /\ \A i \in EntriesOf(S, j, "request") :
            LET e == S.last[i] IN
            /\ e.what = "resize" =>
                 /\ e.resize_amount = S.jobs[j].amt /\ e.allocate_amount = 0
                 /\ e.channel_id = S.jobs[j].channelId /\ e.channel_id # "undefined"
            /\ e.what = "allocate" =>
                 /\ e.resize_amount = 0 /\ e.allocate_amount = S.jobs[j].amt
                 /\ e.channel_id = S.jobs[j].channelId /\ e.channel_id # "undefined"

C26_Witness ==
  /\ \E j \in Jobs : /\ jobs[j].kind = "deposit" /\ jobs[j].pc = "allocate"
                      /\ jobs[j].amt = MaxAmount
  /\ \E j \in Jobs : /\ jobs[j].kind = "recover" /\ jobs[j].pc = "done"
                      /\ jobs[j].inSeq /\ jobs[j].amt = 1

\* C27: recoverCustodyFunds called with nothing in custody sends no request,
\* submits no transaction and asks for no signature; it sets the cached
\* custody balance to '0' and returns in the same task without an error, and
\* issues nothing afterwards.
C27_NothingToRecover ==
  \A j \in Jobs :
    /\ chain.custody = 0 =>
         \A S \in RecoverTasks(j) :
           /\ Issued(S, j) = {} /\ EntriesOf(S, j, "sign") = {}
           /\ S.chain = chain
           /\ S.state.custodyBalance = 0
           /\ S.state.error = NoError
           /\ S.jobs[j].pc = "done"
           /\ EntriesOf(S, j, "returned") # {} /\ EntriesOf(S, j, "thrown") = {}
    /\ (jobs[j].kind = "recover" /\ jobs[j].amt = 0) =>
         /\ jobs[j].pc = "done"
         /\ \A S \in SagaTasks : Issued(S, j) = {} /\ EntriesOf(S, j, "sign") = {}

\* an earlier recovery failed with the cached balance left above 0; the next
\* one finds custody empty
C27_Witness ==
  /\ jobs[1].kind = "recover" /\ jobs[1].pc = "failed" /\ jobs[1].amt > 0
  /\ jobs[2].kind = "recover" /\ jobs[2].pc = "done" /\ jobs[2].amt = 0
  /\ state.custodyBalance = 0

ResizeKinds == {"resize", "allocate"}
Submissions(S) ==
  {i \in Entries(S) : S.last[i].type = "tx" /\ S.last[i].what \in ResizeKinds}

C22_ReadsLatestStateBeforeResize ==
  \A S \in RaceTasks : \A i \in Submissions(S) :
    /\ jobs[S.last[i].job].pc \in {"resize_read", "allocate_read"}
    /\ S.last[i].seen = S.last[i].submitted

\* the labels the sagas put in front of a server error, by step
PhaseLabels(phase) ==
  CASE phase = 1 -> {"Channel creation failed: "}
    [] phase = 3 -> {"Resize (custody->channel) failed: ", "Server rejected resize step 1: "}
    [] phase = 4 -> {"Allocate (channel->ledger) failed: ", "Server rejected allocate: "}
    [] OTHER -> {}

\* the step a saga was thrown out of; the withdrawals of recoverCustodyFunds
\* belong to none of the steps
FailedIn(from) == IF from \in {"fallback", "withdrawal"} THEN 0 ELSE Phase(from)

\* C25: when a step of depositToYellow or recoverCustodyFunds fails
\* unrecoverably (the saga is thrown out of), no later step of that job runs,
\* and the failure surfaced reports the step of the saga at which it failed
\* and the deepest cause of the error's cause chain.
C25_FailureReportsPhaseAndCause ==
  /\ \A j \in Jobs :
       jobs[j].pc = "failed" =>
         AnswerTasks(j) \cup LibraryTasks(j) \cup ReceiptTasks(j) \cup DelayTasks(j) = {}
  /\ \A S \in SagaTasks :
       LET e == S.last[Len(S.last)] IN
       (S.last # <<>> /\ e.type = "thrown") =>
         /\ S.jobs[e.job].pc = "failed"
         /\ S.state.error = e.msg
         /\ \E label \in PhaseLabels(FailedIn(e.from)) : Includes(e.msg, label)
         /\ Includes(e.msg, SimulationError.message[1]) => Includes(e.msg, RevertReason[1])

WithdrawRequests(S) ==
  {i \in Entries(S) : S.last[i].type = "request"
                        /\ S.last[i].what \in {"close_channel", "withdraw_resize"}}

\* C28: withdrawFromChannel sends exactly one request, a close_channel
\* request when the amount is omitted and a resize request for the amount when
\* one is given; when it returns after a close the channel is closed, after a
\* resize the channel is open and holds that amount less; on a server error
\* frame it throws, sets state.error and sends no refresh request.
C28_WithdrawClosesOrResizes ==
  /\ \A j \in Jobs : \A S \in WithdrawTasks(j) :
       S.ok =>
         /\ Cardinality(WithdrawRequests(S)) = 1
         /\ \A i \in WithdrawRequests(S) :
              /\ S.last[i].what = "close_channel" <=> S.jobs[j].amt = 0
              /\ S.last[i].resize_amount = S.jobs[j].amt
              /\ S.last[i].channel_id = S.jobs[j].channelId
  /\ \A j \in Jobs : \A S \in AnswerTasks(j) :
       (S.ok /\ jobs[j].kind = "withdraw") =>
         LET e == S.last[Len(S.last)] IN
         /\ WithdrawRequests(S) = {}
         /\ (S.last # <<>> /\ e.type = "returned") =>
              IF jobs[j].amt = 0 THEN ~S.chain.open
              ELSE S.chain.open /\ S.chain.channel = chain.channel - jobs[j].amt
         /\ (S.last # <<>> /\ e.type = "thrown") =>
              /\ S.state.error = e.msg
              /\ S.jobs[j].pc = "failed"
              /\ \A i \in Entries(S) : S.last[i].type # "request"

\* C24: the channel depositToYellow goes on with after Step 1 is an open
\* channel of the deposit's own token; when one was open it has sent no
\* create_channel request, and it never goes on with the channel of another
\* token.
C24_ReusesChannelOfOwnToken ==
  /\ ensure.pc = "ready" =>
       /\ ensure.channelId = ensure.tokenAddress
       /\ \E i \in 1..Len(ensure.open) : ensure.open[i] = ensure.channelId
  /\ (ensure.pc # "idle" /\ ensure.had) => ~ensure.requested

BalanceQueries(S) == {c \in Slots : S.calls[c].st = "pending" /\ S.calls[c].kind = "balances"}

\* C29: when a balance-update push event with inline balances arrives on the
\* open, authenticated connection (one that connect() established after the
\* provider was mounted), the cached balances are the event's inline balances
\* afterwards and a balance query has been sent.
C29_PushUpdatesCacheAndQueries ==
  \A s \in Socks : \A f \in Frames : \A updates \in BalanceUpdates : \A rid \in ReqIds :
    LET S == Delivered(Cur, s, f, NoIds, updates, rid)
        handled == OnPush(Cur, s, f, updates, rid)
    IN
    (/\ effect.ran /\ wsRef = s /\ rs[s] = "OPEN" /\ state.isAuthenticated
     /\ f.wf /\ f.method = "bu" /\ Len(updates) > 0 /\ S.ok) =>
      /\ S.state.balances = updates
      /\ Cardinality(BalanceQueries(handled)) > Cardinality(BalanceQueries(Cur))

\* the entries of a list of balances for an asset
EntriesFor(balances, asset) ==
  {balances[i] : i \in {k \in 1..Len(balances) : balances[k].asset = asset}}

\* C30: the balance cache holds at most one entry per asset; a balance query
\* that succeeds replaces the whole cache with the response; a push event
\* overwrites the entries of the assets it mentions and the cached entries of
\* the assets it does not mention are kept.
C30_CacheReplacedOnQueryMergedOnPush ==
  /\ \A a \in Assets : Cardinality(EntriesFor(state.balances, a)) <= 1
  /\ \A r \in BalanceResponses :
       r.how = "parsed" => FetchedBalances(state.balances, r) = r.balances
  /\ \A updates \in BalanceLists : \A a \in Assets :
       LET after == PushedBalances(state.balances, updates) IN
       EntriesFor(after, a) = IF EntriesFor(updates, a) # {} THEN EntriesFor(updates, a)
                              ELSE EntriesFor(state.balances, a)

\* frames that are not JSON or have no res array, whatever else they hold
Malformed == {Frame(FALSE, i, m, FALSE, <<>>) : i \in 0..MaxReqId, m \in Methods}

\* C31: a malformed incoming frame (not JSON, or without a res array) changes
\* nothing: no pending call is resolved or rejected, no listener is removed,
\* no socket is closed and the session state stays as it is.
C31_MalformedFrameDropped ==
  \A s \in Socks : \A f \in Malformed : \A updates \in BalanceUpdates : \A rid \in ReqIds :
    rs[s] = "OPEN" => Delivered(Cur, s, f, NoIds, updates, rid) = Cur

C31_Witness ==
  \E s \in Socks : \E c \in Slots :
    /\ rs[s] = "OPEN" /\ Pending(c) /\ calls[c].sock = s /\ wsRef = s
    /\ state.isAuthenticated
    /\ \E S \in DeliverTasks(s) :
         /\ S = Delivered(Cur, s, NoFrame, NoIds, <<>>, NullId)
         /\ S.calls[c].st = "pending"
         /\ c \in Range(S.listeners[s])

\* the calls of kind k that task S sent for connect() invocation p
Sent(S, k, p) ==
  {c \in Slots : /\ S.calls[c].st = "pending" /\ S.calls[c].kind = k
                  /\ S.calls[c].owner = p
                  /\ \A d \in Slots : calls[d] # S.calls[c]}

\* C32: the auth_verify of a handshake is signed under the domain name that
\* is the application of the handshake's auth_request, and over the scope,
\* session key, expiry and allowances that the auth_request carried.
C32_VerifySignsWhatRequestSent ==
  /\ \A c \in Slots :
       (calls[c].st = "pending" /\ calls[c].kind = "auth_request") =>
         calls[c].params = AuthRequest(calls[c].owner)
  /\ \A p \in Procs : \A S \in WalletSignsTasks(p) : \A c \in Sent(S, "auth_verify", p) :
       S.calls[c].params = AuthRequest(p)

C32_Witness ==
  \E p \in Procs : \E c \in Slots :
    /\ procs[p].pc = "verify"
    /\ calls[c].st = "pending" /\ calls[c].kind = "auth_verify" /\ calls[c].owner = p
    /\ calls[c].params.app = "yellowpay"
    /\ calls[c].params.session_key = p

C34_NoCustodyDepositForSmartAccount ==
  \A S \in SagaTasks : \A i \in Entries(S) :
    (S.last[i].type = "tx" /\ S.jobs[S.last[i].job].kind = "deposit"
       /\ S.last[i].what = "deposit") => ~chain.code

\* C35: the close event of a socket whose connect() has ended (disconnect()
\* or a failed connect() closed it) leaves isConnected and isAuthenticated
\* as they are while another socket is the current one and open, and a
\* current socket that is open and authenticated has isAuthenticated true.
C35_OldCloseLeavesSession ==
  /\ \A s \in Socks : \A S \in SocketCloseTasks(s) :
       (wsRef # Null /\ s # wsRef /\ rs[wsRef] = "OPEN"
          /\ procs[s].pc \in {"done", "failed"}) =>
         /\ S.state.isConnected = state.isConnected
         /\ S.state.isAuthenticated = state.isAuthenticated
  /\ (wsRef # Null /\ rs[wsRef] = "OPEN" /\ signerRef = wsRef
        /\ procs[wsRef].pc = "done") => state.isAuthenticated


\* C36: of two balance queries in flight on a socket, the answer to the one
\* issued later stays in the cache when the answer to the earlier one
\* arrives after it.
C36_NewestQueryWins ==
  \A s \in Socks : \A c1, c2 \in Range(listeners[s]) :
    (/\ rs[s] = "OPEN"
     /\ c1 \in BalanceQueries(Cur) /\ c2 \in BalanceQueries(Cur)
     /\ Position(listeners[s], c1) < Position(listeners[s], c2)) =>
      \A b1, b2 \in LedgerBalances :
        AnswerBalances(AnswerBalances(Cur, c2, b2), c1, b1).state.balances = b2


\* C37: sendPayment, depositToYellow, withdrawFromChannel and
\* recoverCustodyFunds called without a signer, without a socket or with
\* isAuthenticated false throw 'Not connected or not authenticated', send no
\* request and submit no transaction and leave everything as it is; and
\* sendMessage with no open socket rejects at once, with nothing sent and no
\* listener added.
C37_DeadSessionRefuses ==
  /\ Dead =>
       \A S \in CallTasks :
         /\ Len(S.last) = 1
         /\ S.last[1].type = "thrown"
         /\ S.last[1].msg = NotAuthenticatedMsg
         /\ [S EXCEPT !.last = <<>>] = Cur
  /\ (wsRef = Null \/ rs[wsRef] # "OPEN") =>
       \A rid \in ReqIds :
         LET S == SendMessage(Cur, "balances", Null, rid) IN
         /\ S.calls = calls
         /\ S.listeners = listeners
         /\ Len(S.last) = 1
         /\ S.last[1].type = "settled"
         /\ S.last[1].st = "rejected"
         /\ S.last[1].why = "notconnected"

C37_Witness ==
  /\ signerRef # Null /\ wsRef # Null /\ rs[wsRef] = "OPEN"
  /\ ~state.isAuthenticated
  /\ CallTasks # {}
  /\ \E s \in Socks : rs[s] = "CLOSED"


\* a request signed with the session key that task S has sent
SignedSends(S) ==
  {c \in Slots : /\ S.calls[c].st = "pending"
                 /\ S.calls[c].signer # Null
                 /\ calls[c].st # "pending"}

\* C38: disconnect() leaves the state equal to initialState and the signer
\* and the socket reference cleared; and from then on, as long as no connect()
\* has authenticated and installed a signer, no task (the heartbeat and the
\* other callers of fetchBalances included) sends a signed request.
C38_DisconnectClearsSession ==
  /\ \A S \in DisconnectTasks :
       /\ S.state = initialState
       /\ S.signerRef = Null
       /\ S.wsRef = Null
  /\ signerRef = Null =>
       \A S \in Tasks \cup FetchBalancesTasks :
         (S.ok /\ S.signerRef = Null) => SignedSends(S) = {}

C38_Witness ==
  /\ state = initialState /\ signerRef = Null /\ wsRef = Null
  /\ \E s \in Socks : rs[s] \in {"CLOSING", "CLOSED"} /\ procs[s].pc = "done"
  /\ \E c \in Slots : calls[c].st = "pending" /\ calls[c].kind = "balances"


\* the transfer requests task S has sent
Transfers(S) ==
  {i \in Entries(S) : S.last[i].type = "request" /\ S.last[i].what = "transfer"}

\* C39: paying from the wallet, a transfer goes out only with the swap DONE
\* and the deposit of the payment returned without an error, and only when no
\* transfer of the payment is in flight already.
C39_TransferOncePerPayment ==
  \A S \in PayTasks :
    Transfers(S) # {} =>
      /\ S.pay.swap = "DONE"
      /\ S.pay.job # Null
      /\ S.jobs[S.pay.job].kind = "deposit"
      /\ S.jobs[S.pay.job].pc = "done"
      /\ Cardinality(Transfers(S)) = 1
      /\ pay.sends = <<>>

====
